---- MODULE Spec2Model ----
(***************************************************************************)
(* A model of ubolt, the convenience wrapper around go.etcd.io/bbolt.      *)
(* The state is the opened database file (its buckets, each with its keys, *)
(* values and sequence counter), whether the handle is open, and the       *)
(* arguments and results of the last call made on the Database.  A second  *)
(* specification makes the calls on the Bucket handle, a third runs two    *)
(* writing calls side by side, transaction step by transaction step, and a *)
(* fourth a reading call next to writing calls and a Close.                *)
(***************************************************************************)
EXTENDS Integers, Sequences, FiniteSets, TLC

VARIABLES
    open,    \* the *bolt.DB held by Database.db is open
    store,   \* the committed buckets: bucket name -> [kv, seq]
    issued,  \* history: per existing bucket, the PutV calls that succeeded
    last,    \* the last call on the Database: its arguments and results, and
             \* whether the key it named was stored when it was made
    leaked,  \* a *bolt.DB that no caller holds is open on the file
    writers, \* the two concurrent writing calls and the engine's writer lock
    inflight \* a reading call, writing calls and a Close made at once

vars == <<open, store, issued, last, leaked, writers, inflight>>

(***************************************************************************)
(* Bounds of the model.                                                    *)
(***************************************************************************)
MaxPutV == 2     \* successful PutV calls per bucket lifetime explored
SeqBase == 254   \* sequence value of the bucket of a reopened file
MaxFail == 1     \* the callback of ForEach/Scan fails at visit 1..MaxFail, or never

(***************************************************************************)
(* Go byte slices.  A []byte is nil or a sequence of bytes; a nil slice    *)
(* has length zero.  The engine stores the bytes only.                     *)
(***************************************************************************)
NilSlice == [isnil |-> TRUE, b |-> <<>>]
Slice(s) == [isnil |-> FALSE, b |-> s]

\* append(dst, src...): appending no element to a nil slice leaves it nil
GoAppend(dst, src) ==
    IF Len(src.b) = 0 THEN dst ELSE Slice(dst.b \o src.b)

\* bytes.HasPrefix
HasPrefix(s, p) ==
    /\ Len(p) <= Len(s)
    /\ \A i \in 1..Len(p) : s[i] = p[i]

\* bytes.Compare(a, b) < 0, the order of the keys of a bucket
LexLess(a, b) ==
    \E i \in 1..Len(b) :
        /\ i <= Len(a) + 1
        /\ \A j \in 1..(i - 1) : a[j] = b[j]
        /\ IF i <= Len(a) THEN a[i] < b[i] ELSE TRUE

(***************************************************************************)
(* itob: binary.BigEndian.PutUint64 into a slice of 8 bytes.               *)
(***************************************************************************)
RECURSIVE PutUint(_, _)
PutUint(v, n) ==
    IF n = 0 THEN <<>> ELSE Append(PutUint(v \div 256, n - 1), v % 256)

\* a plausible slip: the least significant byte first
itobLittleEndian(v) ==
    [i \in 1..8 |-> PutUint(v, 8)[9 - i]]

itob(v) == PutUint(v, 8)

(***************************************************************************)
(* Errors.  ErrBucketNotFound and ErrKeyNotFound are the wrapper's typed   *)
(* errors and carry names; the bolt.* kinds are the engine's sentinels.    *)
(***************************************************************************)
Err(kind, bucket, key) == [kind |-> kind, bucket |-> bucket, key |-> key]
NoErr == Err("nil", <<>>, NilSlice)
ErrBucketNotFound(bucket) == Err("ErrBucketNotFound", bucket, NilSlice)
ErrKeyNotFound(bucket, key) == Err("ErrKeyNotFound", bucket, key)
BoltErr(kind) == Err(kind, <<>>, NilSlice)
CallbackErr == Err("callback", <<>>, NilSlice)

\* ErrBucketNotFound.Is / ErrKeyNotFound.Is: a type assertion on the target
\* a slip: the target is compared field by field
ErrBucketNotFoundIsEqual(e, target) == target = e

ErrBucketNotFoundIs(e, target) == target.kind = "ErrBucketNotFound"
ErrKeyNotFoundIs(e, target) == target.kind = "ErrKeyNotFound"

\* errors.Is: the typed errors hold slices, so they are never compared with
\* ==; the sentinels are compared by identity and have no Is method
ErrorsIs(err, target) ==
    IF err.kind = "nil" THEN target.kind = "nil"
    ELSE IF err.kind = "ErrBucketNotFound" THEN ErrBucketNotFoundIs(err, target)
    ELSE IF err.kind = "ErrKeyNotFound" THEN ErrKeyNotFoundIs(err, target)
    ELSE err = target

(***************************************************************************)
(* The engine as the wrapper uses it: a bucket is a byte-ordered map from  *)
(* non-empty keys to values, with a sequence counter that starts at 0.     *)
(***************************************************************************)
MaxKeySize == 32768
MaxValueSize == 2147483646

\* a value one byte longer than the engine accepts, written as one marker
\* element in place of its MaxValueSize + 1 bytes
HugeValue == <<-1>>
ByteLen(v) == IF v = HugeValue THEN MaxValueSize + 1 ELSE Len(v)

EmptyMap == [x \in {} |-> <<>>]
EmptyBucket == [kv |-> EmptyMap, seq |-> 0]

KvSet(kv, k, v) ==
    [x \in (DOMAIN kv) \cup {k} |-> IF x = k THEN v ELSE kv[x]]

\* a slip: every key that starts with k goes with it
KvDelPrefix(kv, k) ==
    [x \in {y \in DOMAIN kv : ~HasPrefix(y, k)} |-> kv[x]]

KvDel(kv, k) ==
    [x \in (DOMAIN kv) \ {k} |-> kv[x]]

\* b.Put(key, value): the engine refuses an empty or oversized key and an
\* oversized value, and otherwise replaces whatever the key held
BucketPut(bkt, k, v) ==
    IF Len(k) = 0 THEN [err |-> BoltErr("bolt.ErrKeyRequired"), bkt |-> bkt]
    ELSE IF Len(k) > MaxKeySize THEN [err |-> BoltErr("bolt.ErrKeyTooLarge"), bkt |-> bkt]
    ELSE IF ByteLen(v) > MaxValueSize THEN [err |-> BoltErr("bolt.ErrValueTooLarge"), bkt |-> bkt]
    ELSE [err |-> NoErr, bkt |-> [bkt EXCEPT !.kv = KvSet(bkt.kv, k, v)]]

\* b.Get(key): nil when the key is absent, else the stored bytes, which in
\* a read-only transaction are a non-nil slice even when zero-length
BucketGet(bkt, k) ==
    IF k \in DOMAIN bkt.kv THEN Slice(bkt.kv[k]) ELSE NilSlice

\* b.Delete(key): removing an absent key is not an error
BucketDelete(bkt, k) ==
    [err |-> NoErr, bkt |-> [bkt EXCEPT !.kv = KvDel(bkt.kv, k)]]

\* b.NextSequence(): advance the counter and return the new value
NextSequence(bkt) ==
    [id |-> bkt.seq + 1, bkt |-> [bkt EXCEPT !.seq = bkt.seq + 1]]

\* cursor positions: a key, or nil past the last key
\* a slip: shorter keys sort first
MinKeyShortest(S) ==
    CHOOSE k \in S : \A o \in S :
        o = k \/ Len(k) < Len(o) \/ (Len(k) = Len(o) /\ LexLess(k, o))

MinKey(S) == CHOOSE k \in S : \A o \in S : o = k \/ LexLess(k, o)
CursorAt(S) == IF S = {} THEN NilSlice ELSE Slice(MinKey(S))
CursorFirst(bkt) == CursorAt(DOMAIN bkt.kv)
CursorNext(bkt, k) == CursorAt({x \in DOMAIN bkt.kv : LexLess(k, x)})
CursorSeek(bkt, p) == CursorAt({x \in DOMAIN bkt.kv : x = p \/ LexLess(p, x)})

\* tx.CreateBucketIfNotExists(name)

\* a slip: tx.CreateBucket(name), which refuses a bucket that exists
TxCreateBucket(s, name) ==
    IF Len(name) = 0 THEN [err |-> BoltErr("bolt.ErrBucketNameRequired"), store |-> s]
    ELSE IF name \in DOMAIN s THEN [err |-> BoltErr("bolt.ErrBucketExists"), store |-> s]
    ELSE [err |-> NoErr,
          store |-> [x \in (DOMAIN s) \cup {name} |->
                        IF x = name THEN EmptyBucket ELSE s[x]]]

TxCreateBucketIfNotExists(s, name) ==
    IF Len(name) = 0 THEN [err |-> BoltErr("bolt.ErrBucketNameRequired"), store |-> s]
    ELSE IF name \in DOMAIN s THEN [err |-> NoErr, store |-> s]
    ELSE [err |-> NoErr,
          store |-> [x \in (DOMAIN s) \cup {name} |->
                        IF x = name THEN EmptyBucket ELSE s[x]]]

\* tx.DeleteBucket(name): the engine's own sentinel when the bucket is absent

\* a slip: the keys are removed and the bucket stays
TxDeleteBucketKeys(s, name) ==
    IF name \notin DOMAIN s THEN [err |-> BoltErr("bolt.ErrBucketNotFound"), store |-> s]
    ELSE [err |-> NoErr, store |-> [s EXCEPT ![name] = EmptyBucket]]

TxDeleteBucket(s, name) ==
    IF name \notin DOMAIN s THEN [err |-> BoltErr("bolt.ErrBucketNotFound"), store |-> s]
    ELSE [err |-> NoErr, store |-> [x \in (DOMAIN s) \ {name} |-> s[x]]]

\* The transactions a call begins, in order: the mode of each and how it
\* ended.  db.Begin fails on a closed handle, so no transaction begins then.
Tx(mode, end) == [mode |-> mode, end |-> end]

\* db.Update(fn) on the committed store s, where r is what fn does when run
\* on s: a read-write transaction, committed when fn returns nil and rolled
\* back otherwise; out is what fn left in the captured variables, txs the
\* transactions begun

\* a slip: the transaction commits whatever fn returns
UpdateNoRollback(opened, s, r) ==
    IF ~opened
    THEN [err |-> BoltErr("bolt.ErrDatabaseNotOpen"), store |-> s, out |-> NilSlice,
          txs |-> <<>>]
    ELSE [err |-> r.err, store |-> r.store, out |-> r.out,
          txs |-> <<Tx("rw", "commit")>>]

Update(opened, s, r) ==
    IF ~opened
    THEN [err |-> BoltErr("bolt.ErrDatabaseNotOpen"), store |-> s, out |-> NilSlice,
          txs |-> <<>>]
    ELSE IF r.err.kind # "nil"
    THEN [err |-> r.err, store |-> s, out |-> r.out,
          txs |-> <<Tx("rw", "rollback")>>]
    ELSE [err |-> NoErr, store |-> r.store, out |-> r.out,
          txs |-> <<Tx("rw", "commit")>>]

\* db.View(fn) on the committed store s, where r is what fn does when run
\* on s: a read-only transaction, always rolled back; zero is the initial
\* value of the variables fn captures

\* a slip: a reading method runs its function in a read-write transaction
ViewAsUpdate(opened, s, r, zero) ==
    IF ~opened
    THEN [err |-> BoltErr("bolt.ErrDatabaseNotOpen"), out |-> zero, txs |-> <<>>]
    ELSE [err |-> r.err, out |-> r.out, txs |-> <<Tx("rw", "rollback")>>]

View(opened, s, r, zero) ==
    IF ~opened
    THEN [err |-> BoltErr("bolt.ErrDatabaseNotOpen"), out |-> zero, txs |-> <<>>]
    ELSE [err |-> r.err, out |-> r.out, txs |-> <<Tx("ro", "rollback")>>]

(***************************************************************************)
(* The wrapper.  Each ...Tx operator is the function literal a method      *)
(* hands to Update or View; each method returns its results and, for the   *)
(* writing methods, the store it leaves behind.                            *)
(***************************************************************************)
\* a slip: a key that is already stored keeps its first value
PutTxKeepFirst(s, bucket, key, value) ==
    IF bucket \notin DOMAIN s
    THEN [err |-> ErrBucketNotFound(bucket), store |-> s, out |-> NilSlice]
    ELSE IF key.b \in DOMAIN s[bucket].kv
    THEN [err |-> NoErr, store |-> s, out |-> NilSlice]
    ELSE LET p == BucketPut(s[bucket], key.b, value.b)
         IN  [err |-> p.err, store |-> [s EXCEPT ![bucket] = p.bkt], out |-> NilSlice]

PutTx(s, bucket, key, value) ==
    IF bucket \notin DOMAIN s
    THEN [err |-> ErrBucketNotFound(bucket), store |-> s, out |-> NilSlice]
    ELSE LET p == BucketPut(s[bucket], key.b, value.b)
         IN  [err |-> p.err, store |-> [s EXCEPT ![bucket] = p.bkt], out |-> NilSlice]

\* a slip: the key is derived from the number of keys, not from the sequence
PutVTxCountKeys(s, bucket, value) ==
    IF bucket \notin DOMAIN s
    THEN [err |-> ErrBucketNotFound(bucket), store |-> s, out |-> NilSlice]
    ELSE LET n == NextSequence(s[bucket])
             key == Slice(itob(Cardinality(DOMAIN s[bucket].kv) + 1))
             p == BucketPut(n.bkt, key.b, value.b)
         IN  [err |-> p.err, store |-> [s EXCEPT ![bucket] = p.bkt], out |-> key]

PutVTx(s, bucket, value) ==
    IF bucket \notin DOMAIN s
    THEN [err |-> ErrBucketNotFound(bucket), store |-> s, out |-> NilSlice]
    ELSE LET n == NextSequence(s[bucket])
             key == Slice(itob(n.id))
             p == BucketPut(n.bkt, key.b, value.b)
         IN  [err |-> p.err, store |-> [s EXCEPT ![bucket] = p.bkt], out |-> key]

PutV(opened, s, bucket, value) ==
    LET r == Update(opened, s, PutVTx(s, bucket, value))
    IN  IF r.err.kind # "nil"
        THEN [key |-> NilSlice, err |-> r.err, store |-> r.store, txs |-> r.txs]
        ELSE [key |-> r.out, err |-> NoErr, store |-> r.store, txs |-> r.txs]

\* a slip: a zero-length key is taken for the nil key
PutEmptyIsSentinel(opened, s, bucket, key, value) ==
    IF Len(key.b) = 0
    THEN LET r == PutV(opened, s, bucket, value)
         IN  [err |-> r.err, store |-> r.store, txs |-> r.txs]
    ELSE LET r == Update(opened, s, PutTx(s, bucket, key, value))
         IN  [err |-> r.err, store |-> r.store, txs |-> r.txs]

Put(opened, s, bucket, key, value) ==
    IF key.isnil
    THEN LET r == PutV(opened, s, bucket, value)
         IN  [err |-> r.err, store |-> r.store, txs |-> r.txs]
    ELSE LET r == Update(opened, s, PutTx(s, bucket, key, value))
         IN  [err |-> r.err, store |-> r.store, txs |-> r.txs]

\* a slip: len(data) == 0 in place of data == nil
GetETxEmptyIsMissing(s, bucket, key) ==
    IF bucket \notin DOMAIN s
    THEN [err |-> ErrBucketNotFound(bucket), out |-> NilSlice]
    ELSE LET data == BucketGet(s[bucket], key.b)
         IN  IF Len(data.b) = 0
             THEN [err |-> ErrKeyNotFound(bucket, key), out |-> NilSlice]
             ELSE [err |-> NoErr, out |-> GoAppend(NilSlice, data)]

GetETx(s, bucket, key) ==
    IF bucket \notin DOMAIN s
    THEN [err |-> ErrBucketNotFound(bucket), out |-> NilSlice]
    ELSE LET data == BucketGet(s[bucket], key.b)
         IN  IF data.isnil
             THEN [err |-> ErrKeyNotFound(bucket, key), out |-> NilSlice]
             ELSE [err |-> NoErr, out |-> GoAppend(NilSlice, data)]

GetE(opened, s, bucket, key) ==
    LET r == View(opened, s, GetETx(s, bucket, key), NilSlice)
    IN  IF r.err.kind # "nil"
        THEN [value |-> NilSlice, err |-> r.err, txs |-> r.txs]
        ELSE [value |-> r.out, err |-> NoErr, txs |-> r.txs]

Get(opened, s, bucket, key) ==
    GetE(opened, s, bucket, key).value

\* a slip: a missing bucket is taken for nothing to delete
DeleteTxMissingOk(s, bucket, key) ==
    IF bucket \notin DOMAIN s
    THEN [err |-> NoErr, store |-> s, out |-> NilSlice]
    ELSE LET d == BucketDelete(s[bucket], key.b)
         IN  [err |-> d.err, store |-> [s EXCEPT ![bucket] = d.bkt], out |-> NilSlice]

\* a slip: the key is looked up first and its absence reported
DeleteTxStrict(s, bucket, key) ==
    IF bucket \notin DOMAIN s
    THEN [err |-> ErrBucketNotFound(bucket), store |-> s, out |-> NilSlice]
    ELSE IF key.b \notin DOMAIN s[bucket].kv
    THEN [err |-> ErrKeyNotFound(bucket, key), store |-> s, out |-> NilSlice]
    ELSE LET d == BucketDelete(s[bucket], key.b)
         IN  [err |-> d.err, store |-> [s EXCEPT ![bucket] = d.bkt], out |-> NilSlice]

DeleteTx(s, bucket, key) ==
    IF bucket \notin DOMAIN s
    THEN [err |-> ErrBucketNotFound(bucket), store |-> s, out |-> NilSlice]
    ELSE LET d == BucketDelete(s[bucket], key.b)
         IN  [err |-> d.err, store |-> [s EXCEPT ![bucket] = d.bkt], out |-> NilSlice]

Delete(opened, s, bucket, key) ==
    LET r == Update(opened, s, DeleteTx(s, bucket, key))
    IN  [err |-> r.err, store |-> r.store, txs |-> r.txs]

DeleteBucket(opened, s, bucket) ==
    LET r == Update(opened, s,
                 [err |-> TxDeleteBucket(s, bucket).err,
                  store |-> TxDeleteBucket(s, bucket).store,
                  out |-> NilSlice])
    IN  [err |-> r.err, store |-> r.store, txs |-> r.txs]

CreateBucket(opened, s, bucket) ==
    LET r == Update(opened, s,
                 [err |-> TxCreateBucketIfNotExists(s, bucket).err,
                  store |-> TxCreateBucketIfNotExists(s, bucket).store,
                  out |-> NilSlice])
    IN  [err |-> r.err, store |-> r.store, txs |-> r.txs]

\* a [][]byte: nil until the first append
NilList == [isnil |-> TRUE, list |-> <<>>]

RECURSIVE KeysLoop(_, _, _)
KeysLoop(bkt, cur, keys) ==
    IF cur.isnil THEN keys
    ELSE KeysLoop(bkt, CursorNext(bkt, cur.b),
                  [isnil |-> FALSE, list |-> Append(keys.list, cur.b)])

GetKeysETx(s, bucket) ==
    IF bucket \notin DOMAIN s
    THEN [err |-> ErrBucketNotFound(bucket), out |-> NilList]
    ELSE [err |-> NoErr, out |-> KeysLoop(s[bucket], CursorFirst(s[bucket]), NilList)]

GetKeysE(opened, s, bucket) ==
    LET r == View(opened, s, GetKeysETx(s, bucket), NilList)
    IN  IF r.err.kind # "nil"
        THEN [keys |-> NilList, err |-> r.err, txs |-> r.txs]
        ELSE [keys |-> r.out, err |-> NoErr, txs |-> r.txs]

\* a slip: an empty list in place of nil when GetKeysE fails
GetKeysEmptyOnError(opened, s, bucket) ==
    IF GetKeysE(opened, s, bucket).err.kind # "nil"
    THEN [isnil |-> FALSE, list |-> <<>>]
    ELSE GetKeysE(opened, s, bucket).keys

GetKeys(opened, s, bucket) ==
    GetKeysE(opened, s, bucket).keys

\* tx.ForEach walks the buckets of the file in byte order of their names
RECURSIVE BucketsLoop(_, _)
BucketsLoop(S, buckets) ==
    IF S = {} THEN buckets
    ELSE BucketsLoop(S \ {MinKey(S)},
                     [isnil |-> FALSE, list |-> Append(buckets.list, MinKey(S))])

GetBucketsETx(s) ==
    [err |-> NoErr, out |-> BucketsLoop(DOMAIN s, NilList)]

GetBucketsE(opened, s) ==
    LET r == View(opened, s, GetBucketsETx(s), NilList)
    IN  IF r.err.kind # "nil"
        THEN [buckets |-> NilList, err |-> r.err, txs |-> r.txs]
        ELSE [buckets |-> r.out, err |-> NoErr, txs |-> r.txs]

GetBuckets(opened, s) ==
    GetBucketsE(opened, s).buckets

Ping(opened, s) ==
    GetBucketsE(opened, s).err

\* The callback of ForEach and Scan returns an error on its failAt-th call
\* (never when failAt = 0); out is the sequence of its calls.
RECURSIVE ForEachLoop(_, _, _, _)
ForEachLoop(bkt, cur, failAt, visits) ==
    IF cur.isnil THEN [err |-> NoErr, out |-> visits]
    ELSE LET called == Append(visits, <<cur.b, bkt.kv[cur.b]>>)
         IN  IF Len(called) = failAt
             THEN [err |-> CallbackErr, out |-> called]
             ELSE ForEachLoop(bkt, CursorNext(bkt, cur.b), failAt, called)

\* a slip: the error of the callback ends the walk but is not returned
ForEachTxDropErr(s, bucket, failAt) ==
    IF bucket \notin DOMAIN s
    THEN [err |-> ErrBucketNotFound(bucket), out |-> <<>>]
    ELSE [err |-> NoErr,
          out |-> ForEachLoop(s[bucket], CursorFirst(s[bucket]), failAt, <<>>).out]

ForEachTx(s, bucket, failAt) ==
    IF bucket \notin DOMAIN s
    THEN [err |-> ErrBucketNotFound(bucket), out |-> <<>>]
    ELSE ForEachLoop(s[bucket], CursorFirst(s[bucket]), failAt, <<>>)

ForEach(opened, s, bucket, failAt) ==
    LET r == View(opened, s, ForEachTx(s, bucket, failAt), <<>>)
    IN  [err |-> r.err, visits |-> r.out, txs |-> r.txs]

RECURSIVE ScanLoop(_, _, _, _, _)
ScanLoop(bkt, cur, prefix, failAt, visits) ==
    IF cur.isnil \/ ~HasPrefix(cur.b, prefix) THEN [err |-> NoErr, out |-> visits]
    ELSE LET called == Append(visits, <<cur.b, bkt.kv[cur.b]>>)
         IN  IF Len(called) = failAt
             THEN [err |-> CallbackErr, out |-> called]
             ELSE ScanLoop(bkt, CursorNext(bkt, cur.b), prefix, failAt, called)

\* a slip: the walk starts at the first key of the bucket
ScanTxFromFirst(s, bucket, prefix, failAt) ==
    IF bucket \notin DOMAIN s
    THEN [err |-> ErrBucketNotFound(bucket), out |-> <<>>]
    ELSE ScanLoop(s[bucket], CursorFirst(s[bucket]), prefix, failAt, <<>>)

ScanTx(s, bucket, prefix, failAt) ==
    IF bucket \notin DOMAIN s
    THEN [err |-> ErrBucketNotFound(bucket), out |-> <<>>]
    ELSE ScanLoop(s[bucket], CursorSeek(s[bucket], prefix), prefix, failAt, <<>>)

Scan(opened, s, bucket, prefix, failAt) ==
    LET r == View(opened, s, ScanTx(s, bucket, prefix, failAt), <<>>)
    IN  [err |-> r.err, visits |-> r.out, txs |-> r.txs]

\* Open(path): bolt.Open takes the lock of the file, and gives up with a
\* timeout when a *bolt.DB that is still open holds it
Open(locked) ==
    IF locked
    THEN [err |-> BoltErr("bolt.ErrTimeout"), opened |-> FALSE]
    ELSE [err |-> NoErr, opened |-> TRUE]

\* Close(): the engine closes the file, also when it is closed already
Close(opened) == [err |-> NoErr, opened |-> FALSE]

\* OpenBucket(path, bucket): opened says a *bolt.DB was opened by the call,
\* handle that the caller got it
OpenBucket(locked, s, bucket) ==
    IF Open(locked).err.kind # "nil"
    THEN [err |-> Open(locked).err, opened |-> FALSE, handle |-> FALSE,
          store |-> s, txs |-> <<>>]
    ELSE LET c == CreateBucket(TRUE, s, bucket)
         IN  IF c.err.kind # "nil"
             THEN [err |-> c.err, opened |-> TRUE, handle |-> FALSE,
                   store |-> c.store, txs |-> c.txs]
             ELSE [err |-> NoErr, opened |-> TRUE, handle |-> TRUE,
                   store |-> c.store, txs |-> c.txs]

\* Go values handed to Encode and Decode: small ints, a struct of two int
\* fields, and a channel, which encoding/gob cannot encode
GoInt(v) == [type |-> "int", v |-> <<v>>]
GoStruct(a, b) == [type |-> "struct", v |-> <<a, b>>]
GoChan == [type |-> "chan", v |-> <<>>]

\* gob writes a signed integer as an unsigned one: the value shifted left by
\* one bit, complemented when negative (one byte for -64..63)
ZigZag(v) == IF v >= 0 THEN 2 * v ELSE 2 * (-v - 1) + 1
UnZigZag(u) == IF u % 2 = 0 THEN u \div 2 ELSE -((u + 1) \div 2)

\* the message that describes the struct type to the decoder, written as
\* one marker element in place of its bytes
WireType == <<-2>>

\* the fields of a struct value on the wire: a field that holds the zero
\* value is not sent; each field sent is the distance from the field sent
\* before it (from -1 at the start) and its value, and a zero ends the list
RECURSIVE GobFields(_, _, _)
GobFields(v, i, sent) ==
    IF i > Len(v) THEN <<0>>
    ELSE IF v[i] = 0 THEN GobFields(v, i + 1, sent)
    ELSE <<i - sent, ZigZag(v[i])>> \o GobFields(v, i + 1, i)

\* enc.Encode(value): the message of a top-level int is its length, the type
\* id of int (2, signed), a zero byte and the value, sent also when it is
\* zero; a struct is sent as the message of its type and then its fields
GobEncode(x) ==
    IF x.type = "int"
    THEN [err |-> NoErr, b |-> <<3, 4, 0, ZigZag(x.v[1])>>]
    ELSE IF x.type = "struct"
    THEN [err |-> NoErr, b |-> WireType \o GobFields(x.v, 1, 0)]
    ELSE [err |-> BoltErr("gob.unsupported type"), b |-> <<>>]

\* the decoder stores each field it receives and leaves the others alone
RECURSIVE GobSetFields(_, _, _)
GobSetFields(wire, at, v) ==
    IF wire = <<>> \/ wire[1] = 0 THEN v
    ELSE GobSetFields(SubSeq(wire, 3, Len(wire)), at + wire[1],
                      [v EXCEPT ![at + wire[1]] = UnZigZag(wire[2])])

\* dec.Decode(value) of the bytes data into the variable y
GobDecode(data, y) ==
    IF Len(data) = 0 THEN [err |-> BoltErr("io.EOF"), y |-> y]
    ELSE IF SubSeq(data, 1, 1) = WireType
    THEN IF y.type = "struct"
         THEN [err |-> NoErr,
               y |-> [y EXCEPT !.v = GobSetFields(Tail(data), 0, y.v)]]
         ELSE [err |-> BoltErr("gob.type mismatch"), y |-> y]
    ELSE IF Len(data) - 1 < data[1]
    THEN [err |-> BoltErr("io.ErrUnexpectedEOF"), y |-> y]
    ELSE IF Len(data) = 4 /\ data[1] = 3 /\ data[2] = 4 /\ data[3] = 0
    THEN IF y.type = "int"
         THEN [err |-> NoErr, y |-> GoInt(UnZigZag(data[4]))]
         ELSE [err |-> BoltErr("gob.type mismatch"), y |-> y]
    ELSE [err |-> BoltErr("gob.decode error"), y |-> y]

\* a slip: the error of the encoder is dropped and what the buffer holds is
\* stored
EncodeIgnoreErr(opened, s, bucket, key, x) ==
    Put(opened, s, bucket, key, Slice(GobEncode(x).b))

\* a slip: the bucket is created when it is missing
EncodeCreateBucket(opened, s, bucket, key, x) ==
    IF GobEncode(x).err.kind # "nil"
    THEN [err |-> GobEncode(x).err, store |-> s, txs |-> <<>>]
    ELSE Put(opened, CreateBucket(opened, s, bucket).store, bucket, key,
             Slice(GobEncode(x).b))

Encode(opened, s, bucket, key, x) ==
    IF GobEncode(x).err.kind # "nil"
    THEN [err |-> GobEncode(x).err, store |-> s, txs |-> <<>>]
    ELSE Put(opened, s, bucket, key, Slice(GobEncode(x).b))

Decode(opened, s, bucket, key, y) ==
    LET g == GetE(opened, s, bucket, key)
    IN  IF g.err.kind # "nil"
        THEN [err |-> g.err, y |-> y, txs |-> g.txs]
        ELSE [err |-> GobDecode(g.value.b, y).err, y |-> GobDecode(g.value.b, y).y,
              txs |-> g.txs]

\* tx.WriteTo(w) copies the file as the transaction sees it with three
\* writes: a meta page that describes the transaction's store, the same
\* meta page with a lower transaction id, and the data pages up to the size
\* the transaction sees.  A write hands w so many bytes.
PageSize == 4096

\* the pages of the data region: the freelist, the root of the buckets and
\* a page for each bucket
DataPages(s) == 2 + Cardinality(DOMAIN s)

FileImage(s) ==
    <<[piece |-> "meta", id |-> 0, txid |-> 1, pgid |-> 2 + DataPages(s),
       bytes |-> PageSize],
      [piece |-> "meta", id |-> 1, txid |-> 0, pgid |-> 2 + DataPages(s),
       bytes |-> PageSize],
      [piece |-> "data", pages |-> s, bytes |-> DataPages(s) * PageSize]>>

RECURSIVE BytesOf(_)
BytesOf(w) ==
    IF w = <<>> THEN 0 ELSE w[1].bytes + BytesOf(Tail(w))

\* The writer w fails on its failAt-th write (never when failAt = 0) and
\* takes nothing of it; n adds up what the writes before it took.
TxWriteTo(s, failAt) ==
    IF failAt \in 1..Len(FileImage(s))
    THEN [err |-> BoltErr("writer"),
          out |-> [n |-> BytesOf(SubSeq(FileImage(s), 1, failAt - 1)),
                   w |-> SubSeq(FileImage(s), 1, failAt - 1)]]
    ELSE [err |-> NoErr, out |-> [n |-> BytesOf(FileImage(s)), w |-> FileImage(s)]]

\* a slip: the count of tx.WriteTo is dropped
WriteToDropCount(opened, s, failAt) ==
    LET r == View(opened, s, TxWriteTo(s, failAt), [n |-> 0, w |-> <<>>])
    IN  [n |-> 0, err |-> r.err, w |-> r.out.w, txs |-> r.txs]

WriteTo(opened, s, failAt) ==
    LET r == View(opened, s, TxWriteTo(s, failAt), [n |-> 0, w |-> <<>>])
    IN  [n |-> r.out.n, err |-> r.err, w |-> r.out.w, txs |-> r.txs]

\* bolt.Open of a file with the bytes w: the file needs its two meta pages,
\* the engine takes the valid one with the higher transaction id, and the
\* file has to hold the pages that meta page describes
OpenImage(w) ==
    IF Len(w) < 2 \/ BytesOf(w) < 2 * PageSize
    THEN [err |-> BoltErr("bolt.ErrInvalid"), store |-> [x \in {} |-> EmptyBucket]]
    ELSE LET meta == IF w[1].txid > w[2].txid THEN w[1] ELSE w[2]
         IN  IF BytesOf(w) < meta.pgid * PageSize
             THEN [err |-> BoltErr("bolt.ErrInvalid"),
                   store |-> [x \in {} |-> EmptyBucket]]
             ELSE [err |-> NoErr, store |-> w[3].pages]

(***************************************************************************)
(* The Bucket handle of OpenBucket: a Database and the name of a bucket.   *)
(* opened says whether the Database of the handle is open.                 *)
(***************************************************************************)
Bucket(bucket) == [bucket |-> bucket]

Bucket_Close(opened, b) == Close(opened)
Bucket_Ping(opened, s, b) == Ping(opened, s)
Bucket_Put(opened, s, b, key, value) == Put(opened, s, b.bucket, key, value)
Bucket_PutV(opened, s, b, value) == PutV(opened, s, b.bucket, value)
Bucket_GetE(opened, s, b, key) == GetE(opened, s, b.bucket, key)
Bucket_Get(opened, s, b, key) == Get(opened, s, b.bucket, key)
Bucket_Encode(opened, s, b, key, x) == Encode(opened, s, b.bucket, key, x)
Bucket_Decode(opened, s, b, key, y) == Decode(opened, s, b.bucket, key, y)

\* a slip: Delete on the handle deletes the bucket of the handle
Bucket_DeleteAsDeleteBucket(opened, s, b, key) == DeleteBucket(opened, s, b.bucket)

Bucket_Delete(opened, s, b, key) == Delete(opened, s, b.bucket, key)
Bucket_GetKeysE(opened, s, b) == GetKeysE(opened, s, b.bucket)
Bucket_GetKeys(opened, s, b) == GetKeys(opened, s, b.bucket)
Bucket_ForEach(opened, s, b, failAt) == ForEach(opened, s, b.bucket, failAt)
Bucket_Scan(opened, s, b, prefix, failAt) == Scan(opened, s, b.bucket, prefix, failAt)

(***************************************************************************)
(* The inputs of the calls.                                                *)
(***************************************************************************)
BucketA == <<97>>
BucketB == <<98>>
Names == {BucketA, BucketB}
NewNames == {BucketA, BucketB, <<>>}

Key1 == <<107>>
Key2 == <<107, 49>>
Key8 == <<0, 0, 0, 0, 0, 0, 0, 1>>
Value1 == <<118>>

\* <<bucket, key, value>>
PutInputs ==
    ({BucketA} \X {Slice(Key1)}
         \X {NilSlice, Slice(<<>>), Slice(Value1), Slice(HugeValue)})
        \cup ({BucketA} \X {NilSlice} \X {Slice(HugeValue)})
        \cup ({BucketA} \X {NilSlice, Slice(<<>>), Slice(Key2), Slice(Key8)}
                  \X {Slice(Value1)})
        \cup ({BucketB} \X {Slice(Key1)} \X {Slice(Value1)})

\* <<bucket, value>>
PutVInputs ==
    {BucketA} \X {Slice(Value1), Slice(HugeValue)}

\* <<bucket, key>>
KeyInputs ==
    ({BucketA} \X {NilSlice, Slice(<<>>), Slice(Key1), Slice(Key2), Slice(Key8)})
        \cup ({BucketB} \X {Slice(Key1)})

\* OpenBucket(path, bucket)
OpenBucketNames == {BucketB, <<>>}

\* <<bucket, key, value>> of Encode, <<bucket, key, variable>> of Decode
EncodeInputs ==
    {BucketA} \X {Slice(Key1)} \X {GoStruct(0, 5), GoChan}
DecodeInputs ==
    ({BucketA} \X {Slice(Key1)} \X {GoInt(0), GoStruct(1, 2)})
        \cup ({BucketA} \X {Slice(Key2)} \X {GoInt(1)})
        \cup ({BucketB} \X {Slice(Key1)} \X {GoInt(1)})

\* <<bucket, key>> of the unchecked Get
GetInputs ==
    ({BucketA} \X {Slice(Key1), Slice(Key2)}) \cup ({BucketB} \X {Slice(Key1)})

\* the calls on the handle: <<key, value>> of Put, the values of PutV, the
\* keys of Get, GetE and Delete, <<key, value>> of Encode, <<key, variable>>
\* of Decode, <<prefix, failAt>> of Scan
HandlePutInputs ==
    ({NilSlice, Slice(<<>>), Slice(Key1), Slice(Key2)} \X {Slice(Value1)})
        \cup ({Slice(Key1)} \X {Slice(<<>>)})
HandleValues == {Slice(Value1), Slice(HugeValue)}
HandleKeys == {NilSlice, Slice(Key1), Slice(Key2)}
HandleEncodeInputs == {Slice(Key1)} \X {GoStruct(0, 5), GoChan}
HandleDecodeInputs == {Slice(Key1)} \X {GoStruct(1, 2), GoInt(0)}
HandleScanInputs == {Key1, Key2} \X (0..MaxFail)

\* <<bucket, failAt>>
ForEachInputs ==
    ({BucketA} \X (0..MaxFail)) \cup ({BucketB} \X {0})

\* <<bucket, prefix, failAt>>
ScanInputs ==
    ({BucketA} \X {Key1} \X (0..MaxFail))
        \cup ({BucketA} \X {<<>>, <<0>>, Key2} \X {0})
        \cup ({BucketB} \X {Key1} \X {0})

(***************************************************************************)
(* The state machine: one action per method of Database.                   *)
(***************************************************************************)
NoCall ==
    [op |-> "Open", bucket |-> <<>>, key |-> NilSlice, value |-> NilSlice,
     prefix |-> <<>>, failAt |-> 0, present |-> FALSE,
     err |-> NoErr, ret |-> NilSlice, keys |-> NilList, visits |-> <<>>,
     txs |-> <<>>, y |-> GoInt(0), n |-> 0, w |-> <<>>, prior |-> NilSlice]

\* no concurrent call is being made
NoWriters == [pc |-> <<>>]
NoInflight == [rpc |-> <<>>]

NoneIssued == [n |-> 0, key |-> NilSlice]

\* the history follows the buckets: a new bucket has issued nothing
IssuedFor(s) ==
    [x \in DOMAIN s |-> IF x \in DOMAIN issued THEN issued[x] ELSE NoneIssued]

\* the bucket of a file written earlier: SeqBase keys were generated by
\* PutV, the last of them the big-endian SeqBase, and deleted again
OldBucket == [kv |-> EmptyMap, seq |-> SeqBase]
OldIssued ==
    [n |-> SeqBase,
     key |-> Slice(<<0, 0, 0, 0, 0, 0, SeqBase \div 256, SeqBase % 256>>)]

Init ==
    /\ open = TRUE
    /\ \/ /\ store = [x \in {} |-> EmptyBucket]
          /\ issued = [x \in {} |-> NoneIssued]
       \/ /\ store = [x \in {BucketA} |-> OldBucket]
          /\ issued = [x \in {BucketA} |-> OldIssued]
    /\ last = NoCall
    /\ leaked = FALSE
    /\ writers = NoWriters
    /\ inflight = NoInflight

\* A method called on a closed handle fails before it looks at its
\* arguments, so one input of each is explored there.
Explored(inputs) ==
    IF open THEN inputs ELSE {CHOOSE in \in inputs : TRUE}

\* PutV is explored for MaxPutV generated keys per bucket
CanIssue(bucket) ==
    IF bucket \notin DOMAIN store THEN TRUE
    ELSE IF store[bucket].seq < SeqBase THEN store[bucket].seq < MaxPutV
    ELSE store[bucket].seq < SeqBase + MaxPutV

\* history: the key of a Put or Delete was stored when the call was made
Present(bucket, key) ==
    IF bucket \in DOMAIN store THEN key.b \in DOMAIN store[bucket].kv ELSE FALSE

\* history: the last key PutV generated for a bucket name before the bucket
\* was deleted (nil when it generated none), kept over the DeleteBucket of
\* the bucket and the CreateBucket that follows it
PriorKey(bucket) ==
    IF bucket \in DOMAIN issued THEN issued[bucket].key ELSE NilSlice
PriorKept(bucket) ==
    IF last.op = "DeleteBucket" /\ last.bucket = bucket THEN last.prior ELSE NilSlice

\* history: the bucket of a DeleteBucket held keys when the call was made
HasKeys(bucket) ==
    IF bucket \in DOMAIN store THEN DOMAIN store[bucket].kv # {} ELSE FALSE

Issue(bucket, key) ==
    [IssuedFor(store) EXCEPT ![bucket] = [n |-> @.n + 1, key |-> key]]

CallOpen ==
    /\ open' = (open \/ Open(open \/ leaked).opened)
    /\ last' = [NoCall EXCEPT !.err = Open(open \/ leaked).err]
    /\ UNCHANGED <<store, issued, leaked, writers, inflight>>

CallClose ==
    /\ open' = Close(open).opened
    /\ last' = [NoCall EXCEPT !.op = "Close", !.err = Close(open).err]
    /\ UNCHANGED <<store, issued, leaked, writers, inflight>>

CallCreateBucket ==
    \E bucket \in Explored(NewNames) :
        LET r == CreateBucket(open, store, bucket)
        IN  /\ store' = r.store
            /\ issued' = IssuedFor(r.store)
            /\ last' = [NoCall EXCEPT !.op = "CreateBucket", !.bucket = bucket,
                                      !.prior = PriorKept(bucket),
                                      !.err = r.err, !.txs = r.txs]
            /\ UNCHANGED <<open, leaked, writers, inflight>>

CallDeleteBucket ==
    \E bucket \in Explored(Names) :
        LET r == DeleteBucket(open, store, bucket)
        IN  /\ store' = r.store
            /\ issued' = IssuedFor(r.store)
            /\ last' = [NoCall EXCEPT !.op = "DeleteBucket", !.bucket = bucket,
                                      !.present = HasKeys(bucket),
                                      !.prior = PriorKey(bucket),
                                      !.err = r.err, !.txs = r.txs]
            /\ UNCHANGED <<open, leaked, writers, inflight>>

CallPut ==
    \E in \in Explored(PutInputs) :
        LET bucket == in[1]
            key == in[2]
            value == in[3]
            r == Put(open, store, bucket, key, value)
            v == PutV(open, store, bucket, value)
        IN  /\ key.isnil => CanIssue(bucket)
            /\ store' = r.store
            /\ issued' = IF key.isnil /\ r.err.kind = "nil"
                         THEN Issue(bucket, v.key) ELSE issued
            /\ last' = [NoCall EXCEPT !.op = "Put", !.bucket = bucket,
                                      !.key = key, !.value = value,
                                      !.present = Present(bucket, key),
                                      !.err = r.err, !.txs = r.txs]
            /\ UNCHANGED <<open, leaked, writers, inflight>>

CallPutV ==
    \E in \in Explored(PutVInputs) :
        LET bucket == in[1]
            value == in[2]
            r == PutV(open, store, bucket, value)
        IN  /\ CanIssue(bucket)
            /\ store' = r.store
            /\ issued' = IF r.err.kind = "nil" THEN Issue(bucket, r.key) ELSE issued
            /\ last' = [NoCall EXCEPT !.op = "PutV", !.bucket = bucket,
                                      !.value = value, !.err = r.err, !.txs = r.txs, !.ret = r.key]
            /\ UNCHANGED <<open, leaked, writers, inflight>>

CallGetE ==
    \E in \in Explored(KeyInputs) :
        LET r == GetE(open, store, in[1], in[2])
        IN  /\ last' = [NoCall EXCEPT !.op = "GetE", !.bucket = in[1], !.key = in[2],
                                      !.err = r.err, !.txs = r.txs, !.ret = r.value]
            /\ UNCHANGED <<open, store, issued, leaked, writers, inflight>>

CallGet ==
    \E in \in Explored(GetInputs) :
        /\ last' = [NoCall EXCEPT !.op = "Get", !.bucket = in[1], !.key = in[2],
                                  !.ret = Get(open, store, in[1], in[2]),
                                  !.txs = GetE(open, store, in[1], in[2]).txs]
        /\ UNCHANGED <<open, store, issued, leaked, writers, inflight>>

CallDelete ==
    \E in \in Explored(KeyInputs) :
        LET r == Delete(open, store, in[1], in[2])
        IN  /\ store' = r.store
            /\ last' = [NoCall EXCEPT !.op = "Delete", !.bucket = in[1],
                                      !.key = in[2],
                                      !.present = Present(in[1], in[2]),
                                      !.err = r.err, !.txs = r.txs]
            /\ UNCHANGED <<open, issued, leaked, writers, inflight>>

CallGetKeysE ==
    \E bucket \in Explored(Names) :
        LET r == GetKeysE(open, store, bucket)
        IN  /\ last' = [NoCall EXCEPT !.op = "GetKeysE", !.bucket = bucket,
                                      !.err = r.err, !.txs = r.txs, !.keys = r.keys]
            /\ UNCHANGED <<open, store, issued, leaked, writers, inflight>>

CallGetKeys ==
    \E bucket \in Explored(Names) :
        /\ last' = [NoCall EXCEPT !.op = "GetKeys", !.bucket = bucket,
                                  !.keys = GetKeys(open, store, bucket),
                                  !.txs = GetKeysE(open, store, bucket).txs]
        /\ UNCHANGED <<open, store, issued, leaked, writers, inflight>>

CallOpenBucket ==
    \E bucket \in OpenBucketNames :
        LET r == OpenBucket(open \/ leaked, store, bucket)
        IN  /\ open' = (open \/ r.handle)
            /\ leaked' = (leaked \/ (r.opened /\ ~r.handle))
            /\ store' = r.store
            /\ issued' = IssuedFor(r.store)
            /\ last' = [NoCall EXCEPT !.op = "OpenBucket", !.bucket = bucket,
                                      !.err = r.err, !.txs = r.txs]
            /\ UNCHANGED <<writers, inflight>>

CallEncode ==
    \E in \in EncodeInputs :
        LET r == Encode(open, store, in[1], in[2], in[3])
        IN  /\ store' = r.store
            /\ last' = [NoCall EXCEPT !.op = "Encode", !.bucket = in[1],
                                      !.key = in[2], !.y = in[3],
                                      !.present = Present(in[1], in[2]),
                                      !.err = r.err, !.txs = r.txs]
            /\ UNCHANGED <<open, issued, leaked, writers, inflight>>

CallDecode ==
    \E in \in Explored(DecodeInputs) :
        LET r == Decode(open, store, in[1], in[2], in[3])
        IN  /\ last' = [NoCall EXCEPT !.op = "Decode", !.bucket = in[1],
                                      !.key = in[2], !.y = r.y,
                                      !.err = r.err, !.txs = r.txs]
            /\ UNCHANGED <<open, store, issued, leaked, writers, inflight>>

CallWriteTo ==
    \E failAt \in Explored(0..MaxFail) :
        LET r == WriteTo(open, store, failAt)
        IN  /\ last' = [NoCall EXCEPT !.op = "WriteTo", !.failAt = failAt,
                                      !.n = r.n, !.w = r.w,
                                      !.err = r.err, !.txs = r.txs]
            /\ UNCHANGED <<open, store, issued, leaked, writers, inflight>>

CallGetBucketsE ==
    LET r == GetBucketsE(open, store)
    IN  /\ last' = [NoCall EXCEPT !.op = "GetBucketsE", !.err = r.err, !.txs = r.txs,
                                  !.keys = r.buckets]
        /\ UNCHANGED <<open, store, issued, leaked, writers, inflight>>

CallGetBuckets ==
    /\ last' = [NoCall EXCEPT !.op = "GetBuckets", !.keys = GetBuckets(open, store),
                              !.txs = GetBucketsE(open, store).txs]
    /\ UNCHANGED <<open, store, issued, leaked, writers, inflight>>

CallPing ==
    /\ last' = [NoCall EXCEPT !.op = "Ping", !.err = Ping(open, store),
                              !.txs = GetBucketsE(open, store).txs]
    /\ UNCHANGED <<open, store, issued, leaked, writers, inflight>>

CallForEach ==
    \E in \in Explored(ForEachInputs) :
        LET bucket == in[1]
            failAt == in[2]
            r == ForEach(open, store, bucket, failAt)
        IN  /\ last' = [NoCall EXCEPT !.op = "ForEach", !.bucket = bucket,
                                      !.failAt = failAt,
                                      !.err = r.err, !.txs = r.txs, !.visits = r.visits]
            /\ UNCHANGED <<open, store, issued, leaked, writers, inflight>>

CallScan ==
    \E in \in Explored(ScanInputs) :
        LET bucket == in[1]
            prefix == in[2]
            failAt == in[3]
            r == Scan(open, store, bucket, prefix, failAt)
        IN  /\ last' = [NoCall EXCEPT !.op = "Scan", !.bucket = bucket,
                                      !.prefix = prefix, !.failAt = failAt,
                                      !.err = r.err, !.txs = r.txs, !.visits = r.visits]
            /\ UNCHANGED <<open, store, issued, leaked, writers, inflight>>

Next ==
    \/ CallOpen
    \/ CallClose
    \/ CallCreateBucket
    \/ CallDeleteBucket
    \/ CallPut
    \/ CallPutV
    \/ CallGetE
    \/ CallGet
    \/ CallDelete
    \/ CallGetKeysE
    \/ CallGetKeys
    \/ CallOpenBucket
    \/ CallEncode
    \/ CallDecode
    \/ CallWriteTo
    \/ CallGetBucketsE
    \/ CallGetBuckets
    \/ CallPing
    \/ CallForEach
    \/ CallScan

Spec == Init /\ [][Next]_vars

(***************************************************************************)
(* The caller holds the Bucket handle that OpenBucket returned for the     *)
(* bucket BucketB: one action per method of Bucket.  The bucket itself can *)
(* be deleted and created through the Database of the handle.              *)
(***************************************************************************)
Handle == Bucket(BucketB)

InitBucket ==
    /\ open = TRUE
    /\ \/ /\ store = [x \in {BucketB} |-> EmptyBucket]
          /\ issued = [x \in {BucketB} |-> NoneIssued]
       \/ /\ store = [x \in Names |-> IF x = BucketA THEN OldBucket ELSE EmptyBucket]
          /\ issued = [x \in Names |-> IF x = BucketA THEN OldIssued ELSE NoneIssued]
    /\ last = [NoCall EXCEPT !.op = "OpenBucket", !.bucket = BucketB,
                             !.txs = <<Tx("rw", "commit")>>]
    /\ leaked = FALSE
    /\ writers = NoWriters
    /\ inflight = NoInflight

BucketCallClose ==
    /\ open' = Bucket_Close(open, Handle).opened
    /\ last' = [NoCall EXCEPT !.op = "Bucket.Close",
                              !.err = Bucket_Close(open, Handle).err]
    /\ UNCHANGED <<store, issued, leaked, writers, inflight>>

BucketCallPing ==
    /\ last' = [NoCall EXCEPT !.op = "Bucket.Ping",
                              !.err = Bucket_Ping(open, store, Handle)]
    /\ UNCHANGED <<open, store, issued, leaked, writers, inflight>>

BucketCallPut ==
    \E in \in Explored(HandlePutInputs) :
        LET r == Bucket_Put(open, store, Handle, in[1], in[2])
            v == Bucket_PutV(open, store, Handle, in[2])
        IN  /\ in[1].isnil => CanIssue(Handle.bucket)
            /\ store' = r.store
            /\ issued' = IF in[1].isnil /\ r.err.kind = "nil"
                         THEN Issue(Handle.bucket, v.key) ELSE issued
            /\ last' = [NoCall EXCEPT !.op = "Bucket.Put", !.key = in[1],
                                      !.value = in[2],
                                      !.err = r.err, !.txs = r.txs]
            /\ UNCHANGED <<open, leaked, writers, inflight>>

BucketCallPutV ==
    \E value \in Explored(HandleValues) :
        LET r == Bucket_PutV(open, store, Handle, value)
        IN  /\ CanIssue(Handle.bucket)
            /\ store' = r.store
            /\ issued' = IF r.err.kind = "nil"
                         THEN Issue(Handle.bucket, r.key) ELSE issued
            /\ last' = [NoCall EXCEPT !.op = "Bucket.PutV", !.value = value,
                                      !.err = r.err, !.txs = r.txs, !.ret = r.key]
            /\ UNCHANGED <<open, leaked, writers, inflight>>

BucketCallGetE ==
    \E key \in Explored(HandleKeys) :
        LET r == Bucket_GetE(open, store, Handle, key)
        IN  /\ last' = [NoCall EXCEPT !.op = "Bucket.GetE", !.key = key,
                                      !.err = r.err, !.txs = r.txs, !.ret = r.value]
            /\ UNCHANGED <<open, store, issued, leaked, writers, inflight>>

BucketCallGet ==
    \E key \in Explored(HandleKeys) :
        /\ last' = [NoCall EXCEPT !.op = "Bucket.Get", !.key = key,
                                  !.ret = Bucket_Get(open, store, Handle, key)]
        /\ UNCHANGED <<open, store, issued, leaked, writers, inflight>>

BucketCallEncode ==
    \E in \in Explored(HandleEncodeInputs) :
        LET r == Bucket_Encode(open, store, Handle, in[1], in[2])
        IN  /\ store' = r.store
            /\ last' = [NoCall EXCEPT !.op = "Bucket.Encode", !.key = in[1],
                                      !.y = in[2], !.err = r.err, !.txs = r.txs]
            /\ UNCHANGED <<open, issued, leaked, writers, inflight>>

BucketCallDecode ==
    \E in \in Explored(HandleDecodeInputs) :
        LET r == Bucket_Decode(open, store, Handle, in[1], in[2])
        IN  /\ last' = [NoCall EXCEPT !.op = "Bucket.Decode", !.key = in[1],
                                      !.y = r.y, !.err = r.err, !.txs = r.txs]
            /\ UNCHANGED <<open, store, issued, leaked, writers, inflight>>

BucketCallDelete ==
    \E key \in Explored(HandleKeys) :
        LET r == Bucket_Delete(open, store, Handle, key)
        IN  /\ store' = r.store
            /\ issued' = IssuedFor(r.store)
            /\ last' = [NoCall EXCEPT !.op = "Bucket.Delete", !.key = key,
                                      !.err = r.err, !.txs = r.txs]
            /\ UNCHANGED <<open, leaked, writers, inflight>>

BucketCallGetKeysE ==
    LET r == Bucket_GetKeysE(open, store, Handle)
    IN  /\ last' = [NoCall EXCEPT !.op = "Bucket.GetKeysE",
                                  !.err = r.err, !.txs = r.txs, !.keys = r.keys]
        /\ UNCHANGED <<open, store, issued, leaked, writers, inflight>>

BucketCallGetKeys ==
    /\ last' = [NoCall EXCEPT !.op = "Bucket.GetKeys",
                              !.keys = Bucket_GetKeys(open, store, Handle)]
    /\ UNCHANGED <<open, store, issued, leaked, writers, inflight>>

BucketCallForEach ==
    \E failAt \in Explored(0..MaxFail) :
        LET r == Bucket_ForEach(open, store, Handle, failAt)
        IN  /\ last' = [NoCall EXCEPT !.op = "Bucket.ForEach", !.failAt = failAt,
                                      !.err = r.err, !.txs = r.txs,
                                      !.visits = r.visits]
            /\ UNCHANGED <<open, store, issued, leaked, writers, inflight>>

BucketCallScan ==
    \E in \in Explored(HandleScanInputs) :
        LET r == Bucket_Scan(open, store, Handle, in[1], in[2])
        IN  /\ last' = [NoCall EXCEPT !.op = "Bucket.Scan", !.prefix = in[1],
                                      !.failAt = in[2],
                                      !.err = r.err, !.txs = r.txs,
                                      !.visits = r.visits]
            /\ UNCHANGED <<open, store, issued, leaked, writers, inflight>>

NextBucket ==
    \/ BucketCallClose
    \/ BucketCallPing
    \/ BucketCallPut
    \/ BucketCallPutV
    \/ BucketCallGetE
    \/ BucketCallGet
    \/ BucketCallEncode
    \/ BucketCallDecode
    \/ BucketCallDelete
    \/ BucketCallGetKeysE
    \/ BucketCallGetKeys
    \/ BucketCallForEach
    \/ BucketCallScan
    \/ CallOpenBucket
    \/ CallCreateBucket
    \/ CallDeleteBucket

SpecBucket == InitBucket /\ [][NextBucket]_vars

(***************************************************************************)
(* Two callers write at once.  A writing method is db.Update(fn): the      *)
(* engine takes its writer lock and gives the transaction the committed    *)
(* store, fn works on the transaction's own copy, and the transaction      *)
(* commits the copy when fn returned nil, drops it otherwise, and gives    *)
(* the lock back.  Each caller makes one call.                             *)
(***************************************************************************)
Procs == {1, 2}
NoProc == 0

\* the calls of the callers
WriterCalls ==
    {[op |-> "Put", bucket |-> BucketA, key |-> Slice(Key1), value |-> Slice(Value1)],
     [op |-> "Put", bucket |-> BucketA, key |-> NilSlice, value |-> Slice(Value1)],
     [op |-> "Put", bucket |-> BucketB, key |-> Slice(Key1), value |-> Slice(Value1)],
     [op |-> "PutV", bucket |-> BucketA, key |-> NilSlice, value |-> Slice(Value1)],
     [op |-> "PutV", bucket |-> BucketA, key |-> NilSlice, value |-> Slice(HugeValue)],
     [op |-> "Delete", bucket |-> BucketA, key |-> Slice(Key1), value |-> NilSlice],
     [op |-> "CreateBucket", bucket |-> BucketB, key |-> NilSlice, value |-> NilSlice],
     [op |-> "DeleteBucket", bucket |-> BucketA, key |-> NilSlice, value |-> NilSlice]}

\* the stores the callers start from
WriterStores ==
    {[x \in {BucketA} |-> EmptyBucket],
     [x \in {BucketA} |-> [kv |-> [k \in {Key1} |-> <<>>], seq |-> 0]]}

\* the function a writing method hands to db.Update, run on the store s of
\* its transaction
WriterTx(s, c) ==
    IF c.op = "PutV" \/ (c.op = "Put" /\ c.key.isnil)
    THEN PutVTx(s, c.bucket, c.value)
    ELSE IF c.op = "Put" THEN PutTx(s, c.bucket, c.key, c.value)
    ELSE IF c.op = "Delete" THEN DeleteTx(s, c.bucket, c.key)
    ELSE IF c.op = "CreateBucket"
    THEN [err |-> TxCreateBucketIfNotExists(s, c.bucket).err,
          store |-> TxCreateBucketIfNotExists(s, c.bucket).store, out |-> NilSlice]
    ELSE [err |-> TxDeleteBucket(s, c.bucket).err,
          store |-> TxDeleteBucket(s, c.bucket).store, out |-> NilSlice]

\* the same call made alone on the open store s: its error, the key it
\* returns (PutV) and the store it leaves
WriterCall(s, c) ==
    IF c.op = "PutV"
    THEN [err |-> PutV(TRUE, s, c.bucket, c.value).err,
          ret |-> PutV(TRUE, s, c.bucket, c.value).key,
          store |-> PutV(TRUE, s, c.bucket, c.value).store]
    ELSE IF c.op = "Put"
    THEN [err |-> Put(TRUE, s, c.bucket, c.key, c.value).err, ret |-> NilSlice,
          store |-> Put(TRUE, s, c.bucket, c.key, c.value).store]
    ELSE IF c.op = "Delete"
    THEN [err |-> Delete(TRUE, s, c.bucket, c.key).err, ret |-> NilSlice,
          store |-> Delete(TRUE, s, c.bucket, c.key).store]
    ELSE IF c.op = "CreateBucket"
    THEN [err |-> CreateBucket(TRUE, s, c.bucket).err, ret |-> NilSlice,
          store |-> CreateBucket(TRUE, s, c.bucket).store]
    ELSE [err |-> DeleteBucket(TRUE, s, c.bucket).err, ret |-> NilSlice,
          store |-> DeleteBucket(TRUE, s, c.bucket).store]

\* a slip: a read-write transaction begins without the writer lock
RwLockIgnored(w) == TRUE

RwLockFree(w) == w.rwlock = NoProc

InitConc ==
    /\ open = TRUE
    /\ leaked = FALSE
    /\ store \in WriterStores
    /\ issued = [x \in DOMAIN store |-> NoneIssued]
    /\ last = NoCall
    /\ inflight = NoInflight
    /\ writers = [pc |-> [p \in Procs |-> "idle"],
                  call |-> [p \in Procs |-> CHOOSE c \in WriterCalls : TRUE],
                  tx |-> [p \in Procs |-> store],
                  err |-> [p \in Procs |-> NoErr],
                  ret |-> [p \in Procs |-> NilSlice],
                  rwlock |-> NoProc,
                  base |-> store]

\* a caller makes its call
WriterEnter(p) ==
    /\ writers.pc[p] = "idle"
    /\ \E c \in WriterCalls :
           writers' = [writers EXCEPT !.pc[p] = "begin", !.call[p] = c]
    /\ UNCHANGED <<open, store, issued, last, leaked, inflight>>

\* db.Update begins the read-write transaction: it waits for the writer lock
WriterBegin(p) ==
    /\ writers.pc[p] = "begin"
    /\ RwLockFree(writers)
    /\ writers' = [writers EXCEPT !.pc[p] = "body", !.rwlock = p, !.tx[p] = store]
    /\ UNCHANGED <<open, store, issued, last, leaked, inflight>>

\* the function of the method runs in the transaction; only PutV hands the
\* generated key on to its caller
WriterBody(p) ==
    /\ writers.pc[p] = "body"
    /\ LET r == WriterTx(writers.tx[p], writers.call[p])
       IN  writers' = [writers EXCEPT
                          !.pc[p] = "end", !.tx[p] = r.store, !.err[p] = r.err,
                          !.ret[p] = IF writers.call[p].op = "PutV"
                                     THEN r.out ELSE NilSlice]
    /\ UNCHANGED <<open, store, issued, last, leaked, inflight>>

\* the function returned nil: the transaction commits and the call returns
WriterCommit(p) ==
    /\ writers.pc[p] = "end"
    /\ writers.err[p] = NoErr
    /\ store' = writers.tx[p]
    /\ writers' = [writers EXCEPT !.pc[p] = "done", !.rwlock = NoProc]
    /\ UNCHANGED <<open, issued, last, leaked, inflight>>

\* the function returned an error: the transaction is rolled back and the
\* call returns the error, PutV with a nil key
WriterRollback(p) ==
    /\ writers.pc[p] = "end"
    /\ writers.err[p] # NoErr
    /\ writers' = [writers EXCEPT !.pc[p] = "done", !.rwlock = NoProc,
                                  !.ret[p] = NilSlice]
    /\ UNCHANGED <<open, store, issued, last, leaked, inflight>>

NextConc ==
    \E p \in Procs :
        \/ WriterEnter(p)
        \/ WriterBegin(p)
        \/ WriterBody(p)
        \/ WriterCommit(p)
        \/ WriterRollback(p)

SpecConc == InitConc /\ [][NextConc]_vars

(***************************************************************************)
(* A caller reads while another writes and a third closes the store.  A    *)
(* reading method is db.View(fn): the transaction sees the store that was  *)
(* committed when it began, fn walks it step by step, and the transaction  *)
(* ends before the method returns.  The writer makes MaxWrites calls one   *)
(* after the other.  Close takes the writer lock, which waits for the      *)
(* read-write transaction, and then the lock of the memory map, which      *)
(* waits for the read-only transactions; a call made while Close holds the *)
(* locks waits, and fails once the store is closed.                        *)
(*                                                                         *)
(* The engine never overwrites a page: a commit puts what it changed on    *)
(* new pages and the pages it replaced become free once no transaction     *)
(* that can see them is open; a read-write transaction that begins after   *)
(* that may take them.  The keys a cursor returns are slices into the      *)
(* pages of the memory map, valid while the transaction is open.           *)
(***************************************************************************)
MaxWrites == 2   \* writing calls made next to the reading call

\* the calls of the reader
ReadCalls ==
    {[op |-> "GetE", bucket |-> BucketA, key |-> Slice(Key1), prefix |-> <<>>],
     [op |-> "GetKeysE", bucket |-> BucketA, key |-> NilSlice, prefix |-> <<>>],
     [op |-> "GetBucketsE", bucket |-> <<>>, key |-> NilSlice, prefix |-> <<>>],
     [op |-> "ForEach", bucket |-> BucketA, key |-> NilSlice, prefix |-> <<>>],
     [op |-> "Scan", bucket |-> BucketA, key |-> NilSlice, prefix |-> Key1]}

\* the calls of the writer
Key0 == <<107, 48>>
ReadWriterCalls ==
    {[op |-> "Put", bucket |-> BucketA, key |-> Slice(Key1), value |-> Slice(<<>>)],
     [op |-> "Put", bucket |-> BucketA, key |-> Slice(Key0), value |-> Slice(Value1)],
     [op |-> "Delete", bucket |-> BucketA, key |-> Slice(Key2), value |-> NilSlice],
     [op |-> "CreateBucket", bucket |-> BucketB, key |-> NilSlice, value |-> NilSlice],
     [op |-> "DeleteBucket", bucket |-> BucketA, key |-> NilSlice, value |-> NilSlice]}

\* the store the callers start from
ReadStore ==
    [x \in {BucketA} |-> [kv |-> [k \in {Key1, Key2} |-> Value1], seq |-> 0]]

InitRead ==
    /\ open = TRUE
    /\ leaked = FALSE
    /\ store = ReadStore
    /\ issued = [x \in DOMAIN store |-> NoneIssued]
    /\ last = NoCall
    /\ writers = NoWriters
    /\ inflight = [rpc |-> "idle",
                   rcall |-> CHOOSE c \in ReadCalls : TRUE,
                   rtx |-> store, rbase |-> store,
                   rat |-> "start", rcur |-> NilSlice,
                   rvalue |-> NilSlice, rkeys |-> NilList, rvisits |-> <<>>,
                   rerr |-> NoErr, rfault |-> FALSE,
                   freed |-> FALSE, reuse |-> FALSE, clobbered |-> FALSE,
                   wpc |-> "idle",
                   wcall |-> CHOOSE c \in ReadWriterCalls : TRUE,
                   wn |-> 0, werr |-> NoErr,
                   cpc |-> "idle", cwaited |-> FALSE]

\* the store a read-only transaction reads: the one committed when it began
TxStore(f, committed) == f.rtx

\* the lock of the memory map is free: no read-only transaction is open
\* a slip: Close does not wait for it
MmapLockIgnored(f) == TRUE

MmapLockFree(f) == f.rpc # "tx"

\* one step of the function of the reading method on the store s of its
\* transaction: GetE and GetBucketsE in one step, the walks of GetKeysE,
\* ForEach and Scan key by key
ReadStepOf(f, s) ==
    LET c == f.rcall
    IN  IF c.op = "GetE"
        THEN [f EXCEPT !.rvalue = GetETx(s, c.bucket, c.key).out,
                       !.rerr = GetETx(s, c.bucket, c.key).err, !.rat = "end"]
        ELSE IF c.op = "GetBucketsE"
        THEN [f EXCEPT !.rkeys = GetBucketsETx(s).out,
                       !.rerr = GetBucketsETx(s).err, !.rat = "end"]
        ELSE IF c.bucket \notin DOMAIN s
        THEN [f EXCEPT !.rerr = ErrBucketNotFound(c.bucket), !.rat = "end"]
        ELSE IF f.rat = "start"
        THEN [f EXCEPT !.rat = "walk",
                       !.rcur = IF c.op = "Scan"
                                THEN CursorSeek(s[c.bucket], c.prefix)
                                ELSE CursorFirst(s[c.bucket])]
        ELSE IF f.rcur.isnil \/ (c.op = "Scan" /\ ~HasPrefix(f.rcur.b, c.prefix))
        THEN [f EXCEPT !.rat = "end"]
        ELSE [f EXCEPT
                 !.rcur = CursorNext(s[c.bucket], f.rcur.b),
                 !.rkeys = IF c.op = "GetKeysE"
                           THEN [isnil |-> FALSE, list |-> Append(@.list, f.rcur.b)]
                           ELSE @,
                 !.rvisits = IF c.op = "GetKeysE" THEN @
                             ELSE Append(@, <<f.rcur.b,
                                              BucketGet(s[c.bucket], f.rcur.b).b>>)]

\* What the caller finds in the keys a method returned.  GetE copies the
\* value and the callbacks of ForEach and Scan run inside the transaction,
\* but GetKeysE and GetBucketsE return the slices of the cursor: when the
\* pages behind them were taken by a later transaction, or the memory map is
\* gone, the caller may find the keys, other bytes, or a fault.
Garbage == <<0>>
Dangling(keys, valid) ==
    IF valid \/ keys.list = <<>>
    THEN {[keys |-> keys, fault |-> FALSE]}
    ELSE {[keys |-> keys, fault |-> FALSE],
          [keys |-> [isnil |-> FALSE,
                     list |-> [i \in 1..Len(keys.list) |-> Garbage]],
           fault |-> FALSE],
          [keys |-> NilList, fault |-> TRUE]}

\* the reading method is called: db.View begins the transaction, or fails
\* on a closed store
ReadBegin ==
    /\ inflight.rpc = "idle"
    /\ inflight.cpc # "waiting"
    /\ \E c \in ReadCalls :
           inflight' = IF open
                       THEN [inflight EXCEPT !.rpc = "tx", !.rcall = c,
                                             !.rtx = store, !.rbase = store]
                       ELSE [inflight EXCEPT
                                !.rpc = "done", !.rcall = c,
                                !.rerr = View(open, store, [err |-> NoErr, out |-> 0],
                                              0).err]
    /\ UNCHANGED <<open, store, issued, last, leaked, writers>>

ReadStep ==
    /\ inflight.rpc = "tx"
    /\ inflight.rat # "end"
    /\ inflight' = ReadStepOf(inflight, TxStore(inflight, store))
    /\ UNCHANGED <<open, store, issued, last, leaked, writers>>

\* the function returned: the transaction ends
ReadEnd ==
    /\ inflight.rpc = "tx"
    /\ inflight.rat = "end"
    /\ inflight' = [inflight EXCEPT !.rpc = "ended"]
    /\ UNCHANGED <<open, store, issued, last, leaked, writers>>

\* the method returns and the caller looks at what it got
ReadReturn ==
    /\ inflight.rpc = "ended"
    /\ \E d \in Dangling(inflight.rkeys, open /\ ~inflight.clobbered) :
           inflight' = [inflight EXCEPT !.rpc = "done", !.rkeys = d.keys,
                                        !.rfault = d.fault]
    /\ UNCHANGED <<open, store, issued, last, leaked, writers>>

\* a writing method is called: db.Update begins the read-write transaction,
\* which may take the pages that are free by now, or fails on a closed store
WriteBegin ==
    /\ inflight.wpc = "idle"
    /\ inflight.wn < MaxWrites
    /\ inflight.cpc # "waiting"
    /\ \E c \in ReadWriterCalls :
           inflight' = IF open
                       THEN [inflight EXCEPT
                                !.wpc = "tx", !.wcall = c,
                                !.reuse = inflight.freed /\ inflight.rpc # "tx"]
                       ELSE [inflight EXCEPT
                                !.wcall = c, !.wn = @ + 1,
                                !.werr = Update(open, store, WriterTx(store, c)).err]
    /\ UNCHANGED <<open, store, issued, last, leaked, writers>>

\* the function of the writing method ran: the transaction commits or is
\* rolled back, and the method returns
WriteEnd ==
    /\ inflight.wpc = "tx"
    /\ LET r == Update(open, store, WriterTx(store, inflight.wcall))
       IN  /\ store' = r.store
           /\ inflight' = [inflight EXCEPT
                              !.wpc = "idle", !.wn = @ + 1, !.werr = r.err,
                              !.reuse = FALSE,
                              !.freed = @ \/ (r.store # store
                                                /\ inflight.rpc \in {"tx", "ended"}),
                              !.clobbered = @ \/ (r.store # store /\ inflight.reuse)]
    /\ UNCHANGED <<open, issued, last, leaked, writers>>

\* Close is called: it takes the writer lock
CloseBegin ==
    /\ inflight.cpc = "idle"
    /\ inflight.wpc # "tx"
    /\ inflight' = [inflight EXCEPT !.cpc = "waiting",
                                     !.cwaited = ~MmapLockFree(inflight)]
    /\ UNCHANGED <<open, store, issued, last, leaked, writers>>

\* Close takes the lock of the memory map, closes the file and returns
CloseEnd ==
    /\ inflight.cpc = "waiting"
    /\ MmapLockFree(inflight)
    /\ open' = Close(open).opened
    /\ inflight' = [inflight EXCEPT !.cpc = "closed"]
    /\ UNCHANGED <<store, issued, last, leaked, writers>>

NextRead ==
    \/ ReadBegin
    \/ ReadStep
    \/ ReadEnd
    \/ ReadReturn
    \/ WriteBegin
    \/ WriteEnd
    \/ CloseBegin
    \/ CloseEnd

SpecRead == InitRead /\ [][NextRead]_vars

(***************************************************************************)
(* Properties.                                                             *)
(***************************************************************************)
Exists(bucket) == bucket \in DOMAIN store
Stored(bucket, k) == bucket \in DOMAIN store /\ k \in DOMAIN store[bucket].kv

\* the targets callers hand to errors.Is
AnyBucketNotFound == ErrBucketNotFound(<<>>)
AnyKeyNotFound == ErrKeyNotFound(<<>>, NilSlice)

\* the number an 8-byte key encodes when read big-endian (-1 when it is not
\* 8 bytes or lies beyond the three low bytes)
BigEndianValue(k) ==
    IF Len(k) # 8 THEN -1
    ELSE IF \E i \in 1..5 : k[i] # 0 THEN -1
    ELSE k[6] * 65536 + k[7] * 256 + k[8]

\* what a read of v yields: the bytes of v, in a nil slice when there are none
ReadBack(v) == IF Len(v.b) = 0 THEN NilSlice ELSE Slice(v.b)

\* C1 as stated: on an open store, after Put(b,k,v) into an existing bucket
\* with any byte-string k, the zero-length one included, GetE(b,k) returns v
\* and no error.
C1_RoundTripAnyKey ==
    (open /\ last.op = "Put" /\ ~last.key.isnil /\ Exists(last.bucket))
        => /\ GetE(open, store, last.bucket, last.key).err = NoErr
           /\ GetE(open, store, last.bucket, last.key).value.b = last.value.b

\* C1 amended: on an open store, Put(b,k,v) into an existing bucket with a
\* non-empty key k (of at most MaxKeySize bytes) and any v of at most
\* MaxValueSize bytes (zero-length included) succeeds, and GetE(b,k) then
\* returns no error and the bytes of v, in a nil slice when v is zero-length.
C1_RoundTrip ==
    (open /\ last.op = "Put" /\ ~last.key.isnil /\ Exists(last.bucket)
          /\ Len(last.key.b) > 0 /\ Len(last.key.b) <= MaxKeySize
          /\ ByteLen(last.value.b) <= MaxValueSize)
        => /\ last.err = NoErr
           /\ GetE(open, store, last.bucket, last.key).err = NoErr
           /\ GetE(open, store, last.bucket, last.key).value = ReadBack(last.value)

C1_Witness ==
    /\ open /\ last.op = "Put" /\ last.err = NoErr
    /\ last.bucket = BucketA /\ last.key = Slice(Key1) /\ last.value = Slice(<<>>)

\* C2: on an open store, Put (explicit or nil key), PutV, GetE, Delete,
\* GetKeysE, Scan and ForEach on a bucket that does not exist return an
\* error of kind ErrBucketNotFound, and Scan/ForEach never call the callback.
C2_MissingBucket ==
    (open /\ last.op \in {"Put", "PutV", "GetE", "Delete", "GetKeysE", "Scan", "ForEach"}
          /\ ~Exists(last.bucket))
        => /\ ErrorsIs(last.err, AnyBucketNotFound)
           /\ last.visits = <<>>

C2_Witness ==
    /\ open /\ last.op = "Delete" /\ ~Exists(last.bucket)
    /\ ErrorsIs(last.err, AnyBucketNotFound)

\* C3: on an open store GetE fails with kind ErrBucketNotFound when the
\* bucket does not exist, whatever the key, and with kind ErrKeyNotFound when
\* the bucket exists and the key does not; errors.Is against an empty
\* ErrBucketNotFound{} / ErrKeyNotFound{}, or against one carrying other
\* names, matches the kind, and neither error matches the other kind.
C3_GetEKinds ==
    (open /\ last.op = "GetE")
        => /\ ~Exists(last.bucket) =>
                  /\ \A n \in NewNames : ErrorsIs(last.err, ErrBucketNotFound(n))
                  /\ last.err.bucket = last.bucket
                  /\ ~ErrorsIs(last.err, AnyKeyNotFound)
           /\ (Exists(last.bucket) /\ ~Stored(last.bucket, last.key.b)) =>
                  /\ ErrorsIs(last.err, AnyKeyNotFound)
                  /\ \A n \in NewNames :
                         ErrorsIs(last.err, ErrKeyNotFound(n, Slice(Key2)))
                  /\ last.err.bucket = last.bucket /\ last.err.key = last.key
                  /\ ~ErrorsIs(last.err, AnyBucketNotFound)

C3_Witness ==
    /\ open /\ last.op = "GetE" /\ ~Exists(last.bucket)
    /\ last.bucket = BucketA /\ last.err.kind = "ErrBucketNotFound"

\* C4: Get returns the value of GetE when GetE succeeds and nil when GetE
\* returns any error; GetKeys returns the keys of GetKeysE when it succeeds
\* and nil when GetKeysE returns any error.
C4_Unchecked ==
    /\ last.op = "Get" =>
           last.ret = IF GetE(open, store, last.bucket, last.key).err = NoErr
                      THEN GetE(open, store, last.bucket, last.key).value
                      ELSE NilSlice
    /\ last.op = "GetKeys" =>
           last.keys = IF GetKeysE(open, store, last.bucket).err = NoErr
                       THEN GetKeysE(open, store, last.bucket).keys
                       ELSE NilList
    /\ last.op \in {"Get", "GetKeys"} => last.err = NoErr

C4_Witness ==
    /\ open /\ last.op = "GetKeys" /\ ~Exists(last.bucket)
    /\ GetKeysE(open, store, last.bucket).err.kind = "ErrBucketNotFound"
    /\ last.keys = NilList

\* C5 as stated: on an open store Get(b,k) returns nil if and only if b does
\* not exist or k is not in b; for a key that is present, whatever its value,
\* Get returns a non-nil value equal to the stored one.
C5_NilMeansAbsent ==
    (open /\ last.op = "Get")
        => /\ last.ret.isnil <=> ~Stored(last.bucket, last.key.b)
           /\ Stored(last.bucket, last.key.b) =>
                  last.ret = Slice(store[last.bucket].kv[last.key.b])

\* C6: on an open store Delete(b,k) on an existing bucket succeeds whether or
\* not k is present, leaves the store unchanged when k is absent, and after
\* it a further Delete(b,k) succeeds without changing the store and GetE(b,k)
\* fails with kind ErrKeyNotFound.
C6_IdempotentDelete ==
    [][(open /\ last'.op = "Delete" /\ Exists(last'.bucket))
          => /\ last'.err = NoErr
             /\ ~Stored(last'.bucket, last'.key.b) => store' = store
             /\ Delete(open', store', last'.bucket, last'.key).err = NoErr
             /\ Delete(open', store', last'.bucket, last'.key).store = store'
             /\ ErrorsIs(GetE(open', store', last'.bucket, last'.key).err,
                         AnyKeyNotFound)]_vars

C6_Witness ==
    /\ open /\ last.op = "Delete" /\ last.err = NoErr
    /\ last.bucket = BucketA /\ last.key = Slice(Key1) /\ ~last.present
    /\ DOMAIN store[BucketA].kv # {}

\* C7: on an open store a Put with an explicit key that the existing bucket
\* already holds, and a value the engine can store, succeeds, GetE then returns exactly the new value, and the
\* bucket has as many keys as before.
C7_Overwrite ==
    [][(open /\ last'.op = "Put" /\ ~last'.key.isnil
             /\ Stored(last'.bucket, last'.key.b)
             /\ ByteLen(last'.value.b) <= MaxValueSize)
          => /\ last'.err = NoErr
             /\ GetE(open', store', last'.bucket, last'.key).err = NoErr
             /\ GetE(open', store', last'.bucket, last'.key).value
                    = ReadBack(last'.value)
             /\ store'[last'.bucket].kv[last'.key.b] = last'.value.b
             /\ Cardinality(DOMAIN store'[last'.bucket].kv)
                    = Cardinality(DOMAIN store[last'.bucket].kv)]_vars

C7_Witness ==
    /\ open /\ last.op = "Put" /\ last.err = NoErr
    /\ last.bucket = BucketA /\ last.key = Slice(Key1) /\ last.value = Slice(<<>>)
    /\ last.present /\ Cardinality(DOMAIN store[BucketA].kv) = 2

\* C8: Put with the nil key has the result and the effect of PutV: when it
\* succeeds the value is stored under the 8-byte key of the next sequence
\* value and the counter is one higher; Put with a non-nil zero-length key
\* generates no key and leaves every sequence counter as it was.
C8_NilKeyIsPutV ==
    [][last'.op = "Put"
          => /\ last'.key.isnil =>
                    /\ last'.err = PutV(open, store, last'.bucket, last'.value).err
                    /\ store' = PutV(open, store, last'.bucket, last'.value).store
                    /\ last'.err = NoErr =>
                           /\ store'[last'.bucket].seq = store[last'.bucket].seq + 1
                           /\ \E k \in DOMAIN store'[last'.bucket].kv :
                                  /\ BigEndianValue(k) = store[last'.bucket].seq + 1
                                  /\ store'[last'.bucket].kv[k] = last'.value.b
             /\ (~last'.key.isnil /\ Len(last'.key.b) = 0) =>
                    /\ DOMAIN store' = DOMAIN store
                    /\ \A x \in DOMAIN store :
                           /\ store'[x].seq = store[x].seq
                           /\ DOMAIN store'[x].kv = DOMAIN store[x].kv]_vars

C8_Witness ==
    /\ open /\ last.op = "Put" /\ last.key.isnil /\ last.err = NoErr
    /\ last.bucket = BucketA /\ store[BucketA].seq = 2

\* C9: a successful PutV returns an 8-byte key, the big-endian encoding of
\* the bucket's sequence value, and that key is greater than the key of the
\* previous successful PutV on the bucket, as a number and as a byte string.
C9_AutoKeyMonotonic ==
    [][(last'.op = "PutV" /\ last'.err = NoErr)
          => /\ Len(last'.ret.b) = 8
             /\ BigEndianValue(last'.ret.b) = store'[last'.bucket].seq
             /\ issued[last'.bucket].n > 0 =>
                    /\ BigEndianValue(issued[last'.bucket].key.b)
                           < BigEndianValue(last'.ret.b)
                    /\ LexLess(issued[last'.bucket].key.b, last'.ret.b)]_vars

C9_Witness ==
    /\ open /\ last.op = "PutV" /\ last.err = NoErr
    /\ last.ret = Slice(<<0, 0, 0, 0, 0, 0, 1, 0>>)

\* C10: the n-th successful PutV since the bucket was created returns the
\* encoding of n, n >= 1, whatever explicit Put and Delete calls came in
\* between, so no sequence value is issued twice.
C10_NthKey ==
    (last.op = "PutV" /\ last.err = NoErr)
        => /\ BigEndianValue(last.ret.b) = issued[last.bucket].n
           /\ issued[last.bucket].n >= 1

C10_Witness ==
    /\ open /\ last.op = "PutV" /\ last.err = NoErr
    /\ last.ret = Slice(<<0, 0, 0, 0, 0, 0, 0, 2>>)
    /\ issued[BucketA].n = 2
    /\ DOMAIN store[BucketA].kv = {Key1, <<0, 0, 0, 0, 0, 0, 0, 2>>}

\* C11: on an open store, when PutV, or Put with the nil key, fails on an
\* existing bucket, that is after the sequence was advanced inside the
\* transaction, the store is as before (no new key, the counter not
\* advanced), PutV returns a nil key, and the next successful PutV returns
\* the key the failed call would have returned.
C11_FailedPutVRollsBack ==
    [][(open /\ last'.op \in {"PutV", "Put"} /\ last'.key.isnil
             /\ Exists(last'.bucket) /\ last'.err # NoErr)
          => /\ store' = store
             /\ last'.ret = NilSlice
             /\ PutV(open', store', last'.bucket, Slice(Value1)).err = NoErr
             /\ BigEndianValue(PutV(open', store', last'.bucket, Slice(Value1)).key.b)
                    = store[last'.bucket].seq + 1]_vars

C11_Witness ==
    /\ open /\ last.op = "PutV" /\ last.err.kind = "bolt.ErrValueTooLarge"
    /\ last.bucket = BucketA /\ Exists(BucketA) /\ store[BucketA].seq = 1
    /\ last.ret = NilSlice

\* the keys of a list of visits, and what a complete ascending walk over the
\* key set K of bucket b looks like
VisitKeys(visits) == [i \in 1..Len(visits) |-> visits[i][1]]
Ascending(keys) == \A i \in 1..(Len(keys) - 1) : LexLess(keys[i], keys[i + 1])
WalkOf(keys, K) ==
    /\ {keys[i] : i \in 1..Len(keys)} = K
    /\ Len(keys) = Cardinality(K)
    /\ Ascending(keys)
ValuesOf(visits, b) ==
    \A i \in 1..Len(visits) : visits[i][2] = store[b].kv[visits[i][1]]

\* C12: on an open store and for an existing bucket, GetKeysE succeeds and
\* returns every key of the bucket exactly once in ascending byte order, and
\* ForEach with a callback that never fails succeeds and visits every key
\* exactly once in that order, each with its stored value; for an empty
\* bucket GetKeysE returns an empty result and ForEach makes no visit.
C12_Enumeration ==
    (open /\ Exists(last.bucket))
        => /\ last.op = "GetKeysE"
                => /\ last.err = NoErr
                   /\ WalkOf(last.keys.list, DOMAIN store[last.bucket].kv)
           /\ (last.op = "ForEach" /\ last.failAt = 0)
                => /\ last.err = NoErr
                   /\ WalkOf(VisitKeys(last.visits), DOMAIN store[last.bucket].kv)
                   /\ ValuesOf(last.visits, last.bucket)

C12_Witness ==
    /\ open /\ last.op = "GetKeysE" /\ last.bucket = BucketA
    /\ last.err = NoErr
    /\ Exists(BucketA)
    /\ issued[BucketA] = [n |-> 1, key |-> Slice(itob(1))]
    /\ last.keys.list = <<itob(1), Key1, Key2>>

\* C13: on an open store, for an existing bucket and a prefix p, Scan with a
\* callback that never fails succeeds and visits exactly the keys that start
\* with p, each once, in ascending byte order and with its stored value;
\* when no key starts with p it makes no visit and succeeds.
C13_PrefixScan ==
    (open /\ Exists(last.bucket) /\ last.op = "Scan" /\ last.failAt = 0)
        => /\ last.err = NoErr
           /\ WalkOf(VisitKeys(last.visits),
                     {k \in DOMAIN store[last.bucket].kv : HasPrefix(k, last.prefix)})
           /\ ValuesOf(last.visits, last.bucket)

C13_Witness ==
    /\ open /\ last.op = "Scan" /\ last.bucket = BucketA /\ last.failAt = 0
    /\ last.prefix = Key1
    /\ Exists(BucketA)
    /\ DOMAIN store[BucketA].kv = {Key8, Key1, Key2}
    /\ VisitKeys(last.visits) = <<Key1, Key2>>

\* C14: on an open store and for an existing bucket, when the callback of
\* ForEach or Scan returns an error on its n-th call, the walk ends with
\* that call (the visits are the first n of the walk that a callback which
\* never fails gets), the method returns exactly that error, and the store
\* is as before.
C14_CallbackAbort ==
    [][(open /\ last'.op \in {"ForEach", "Scan"} /\ Exists(last'.bucket))
          => /\ store' = store
             /\ LET full == IF last'.op = "ForEach"
                            THEN ForEach(open, store, last'.bucket, 0).visits
                            ELSE Scan(open, store, last'.bucket, last'.prefix, 0).visits
                IN  IF last'.failAt = 0
                    THEN last'.err = NoErr
                    ELSE IF last'.failAt <= Len(full)
                    THEN /\ last'.err = CallbackErr
                         /\ last'.visits = SubSeq(full, 1, last'.failAt)
                    ELSE /\ last'.err = NoErr
                         /\ last'.visits = full]_vars

C14_Witness ==
    /\ open /\ last.op = "ForEach" /\ last.bucket = BucketA
    /\ last.failAt = 1 /\ last.err = CallbackErr
    /\ Len(last.visits) = 1
    /\ Exists(BucketA)
    /\ Cardinality(DOMAIN store[BucketA].kv) >= 2

\* C15: on an open store CreateBucket with a non-empty name succeeds whether
\* or not the bucket exists, the bucket exists afterwards, an existing bucket
\* keeps its keys, values and sequence counter, and every other bucket is
\* unchanged.
C15_CreateBucketIdempotent ==
    [][(open /\ last'.op = "CreateBucket" /\ Len(last'.bucket) > 0)
          => /\ last'.err = NoErr
             /\ last'.bucket \in DOMAIN store'
             /\ DOMAIN store' = (DOMAIN store) \cup {last'.bucket}
             /\ \A b \in DOMAIN store : store'[b] = store[b]
             /\ CreateBucket(open', store', last'.bucket).err = NoErr
             /\ CreateBucket(open', store', last'.bucket).store = store']_vars

C15_Witness ==
    /\ open /\ last.op = "CreateBucket" /\ last.err = NoErr
    /\ last.bucket = BucketA /\ Exists(BucketA) /\ Exists(BucketB)
    /\ Key1 \in DOMAIN store[BucketA].kv
    /\ store[BucketA].seq = 1

\* C16 (as claimed): on an open store DeleteBucket of a bucket that does not
\* exist fails with an error that the ErrBucketNotFound kind test
\* recognises, and leaves the store unchanged.
C16_DeleteMissingBucket ==
    [][(open /\ last'.op = "DeleteBucket" /\ ~Exists(last'.bucket))
          => /\ ErrorsIs(last'.err, AnyBucketNotFound)
             /\ store' = store]_vars

\* every operation against bucket b fails with kind ErrBucketNotFound in
\* store s
AllBucketNotFound(s, b) ==
    /\ ErrorsIs(Put(TRUE, s, b, Slice(Key1), Slice(Value1)).err, AnyBucketNotFound)
    /\ ErrorsIs(Put(TRUE, s, b, NilSlice, Slice(Value1)).err, AnyBucketNotFound)
    /\ ErrorsIs(PutV(TRUE, s, b, Slice(Value1)).err, AnyBucketNotFound)
    /\ ErrorsIs(GetE(TRUE, s, b, Slice(Key1)).err, AnyBucketNotFound)
    /\ Get(TRUE, s, b, Slice(Key1)) = NilSlice
    /\ ErrorsIs(Delete(TRUE, s, b, Slice(Key1)).err, AnyBucketNotFound)
    /\ ErrorsIs(GetKeysE(TRUE, s, b).err, AnyBucketNotFound)
    /\ GetKeys(TRUE, s, b) = NilList
    /\ ErrorsIs(ForEach(TRUE, s, b, 0).err, AnyBucketNotFound)
    /\ ErrorsIs(Scan(TRUE, s, b, <<>>, 0).err, AnyBucketNotFound)

\* C17: on an open store, after a successful DeleteBucket(b) the bucket is
\* gone with its keys: GetBucketsE does not list b, the operations against
\* b (Put, PutV, GetE, Get, Delete, GetKeysE, GetKeys, ForEach, Scan) find
\* no bucket, CreateBucket(b) then yields a bucket with no keys, and every
\* other bucket is as before.
C17_DeleteBucketRemoves ==
    [][(open /\ last'.op = "DeleteBucket" /\ last'.err = NoErr)
          => LET b == last'.bucket
                 listed == GetBucketsE(open', store').buckets.list
             IN  /\ DOMAIN store' = (DOMAIN store) \ {b}
                 /\ b \in DOMAIN store
                 /\ \A i \in 1..Len(listed) : listed[i] # b
                 /\ AllBucketNotFound(store', b)
                 /\ CreateBucket(open', store', b).err = NoErr
                 /\ DOMAIN CreateBucket(open', store', b).store[b].kv = {}
                 /\ \A o \in DOMAIN store' : store'[o] = store[o]]_vars

C17_Witness ==
    /\ open /\ last.op = "DeleteBucket" /\ last.err = NoErr
    /\ last.bucket = BucketA /\ last.present
    /\ ~Exists(BucketA) /\ Exists(BucketB)
    /\ Key1 \in DOMAIN store[BucketB].kv

\* C18: the set of buckets changes only by a CreateBucket or OpenBucket that
\* adds the bucket it names, or by a DeleteBucket that removes the bucket it
\* names; a Put, PutV, Encode, Get, GetE, Delete, Scan or ForEach against a
\* missing bucket leaves it missing.
C18_NoImplicitBucket ==
    [][/\ DOMAIN store' # DOMAIN store
            => \/ /\ last'.op \in {"CreateBucket", "OpenBucket"}
                  /\ DOMAIN store' = (DOMAIN store) \cup {last'.bucket}
               \/ /\ last'.op = "DeleteBucket"
                  /\ DOMAIN store' = (DOMAIN store) \ {last'.bucket}
       /\ (last'.op \in {"Put", "PutV", "Encode", "Get", "GetE", "Delete",
                         "Scan", "ForEach"}
             /\ ~Exists(last'.bucket))
            => /\ last'.bucket \notin DOMAIN store'
               /\ store' = store]_vars

C18_Witness ==
    /\ open /\ last.op = "Encode" /\ last.y = GoStruct(0, 5)
    /\ ~Exists(last.bucket)
    /\ ErrorsIs(last.err, AnyBucketNotFound)

\* the methods that read and the methods that write
ReadOps ==
    {"Get", "GetE", "Decode", "GetKeys", "GetKeysE", "GetBuckets", "GetBucketsE",
     "ForEach", "Scan", "Ping", "WriteTo"}
WriteOps ==
    {"Put", "PutV", "Encode", "Delete", "CreateBucket", "DeleteBucket"}
OneTx(txs, mode) ==
    /\ Len(txs) = 1
    /\ txs[1].mode = mode
    /\ txs[1].end \in {"commit", "rollback"}

\* C19 as stated: on an open store every call of a reading method begins
\* exactly one transaction, a read-only one, every call of a writing method
\* begins exactly one, a read-write one, and the transaction has ended when
\* the call returns.
C19_OneTxEveryCall ==
    open => /\ last.op \in ReadOps => OneTx(last.txs, "ro")
            /\ last.op \in WriteOps => OneTx(last.txs, "rw")

\* C19 amended: as stated, except that Encode begins no transaction when
\* the codec rejects the value; no call begins more than one transaction,
\* and on a closed handle none begins.
C19_OneTxUnlessCodecFails ==
    /\ Len(last.txs) <= 1
    /\ \A i \in 1..Len(last.txs) : last.txs[i].end \in {"commit", "rollback"}
    /\ ~open => (last.op \in ReadOps \cup WriteOps => last.txs = <<>>)
    /\ open => /\ last.op \in ReadOps => OneTx(last.txs, "ro")
               /\ (last.op \in WriteOps
                     /\ ~(last.op = "Encode" /\ GobEncode(last.y).err # NoErr))
                    => OneTx(last.txs, "rw")
               /\ (last.op = "Encode" /\ GobEncode(last.y).err # NoErr)
                    => /\ last.txs = <<>>
                       /\ last.err = GobEncode(last.y).err

C19_Witness ==
    /\ open /\ last.op = "Encode" /\ last.y = GoChan
    /\ Exists(last.bucket) /\ last.txs = <<>>
    /\ last.err.kind = "gob.unsupported type"

\* the two calls of the callers made one after the other from store s, the
\* call of first before the other: the store left and each call's results
InOrder(s, first, w) ==
    LET second == CHOOSE p \in Procs : p # first
        r1 == WriterCall(s, w.call[first])
        r2 == WriterCall(r1.store, w.call[second])
    IN  /\ store = r2.store
        /\ w.err[first] = r1.err /\ w.ret[first] = r1.ret
        /\ w.err[second] = r2.err /\ w.ret[second] = r2.ret

\* C20: when two callers make writing calls (Put, PutV, Delete,
\* CreateBucket, DeleteBucket) on one open store at once, at most one
\* read-write transaction is in flight at any moment, and when both calls
\* have returned the store and the results of the calls are those of the two
\* calls made one after the other in one of the two orders.
C20_WritersSerialized ==
    /\ Cardinality({p \in Procs : writers.pc[p] \in {"body", "end"}}) <= 1
    /\ (\A p \in Procs : writers.pc[p] = "done")
          => \E first \in Procs : InOrder(writers.base, first, writers)

C20_Witness ==
    /\ \A p \in Procs : writers.pc[p] = "done" /\ writers.call[p].op = "PutV"
                          /\ writers.err[p] = NoErr
    /\ writers.ret[1] = Slice(itob(2))
    /\ writers.ret[2] = Slice(itob(1))

\* C24: when the codec rejects the value, Encode returns the codec's error,
\* begins no transaction, and leaves the store as it was: the key keeps the
\* value it had, or stays absent, and the sequence counter of the bucket is
\* not advanced.
C24_EncodeFailureNoStorage ==
    [][(last'.op = "Encode" /\ GobEncode(last'.y).err # NoErr)
          => /\ last'.err = GobEncode(last'.y).err
             /\ last'.txs = <<>>
             /\ store' = store]_vars

C24_Witness ==
    /\ open /\ last.op = "Encode" /\ last.y = GoChan /\ last.present
    /\ last.err.kind = "gob.unsupported type"
    /\ Stored(BucketA, Key1) /\ store[BucketA].kv[Key1] = Value1
    /\ store[BucketA].seq = 1

\* the stores s and t differ at most in the entry (b, k): the same buckets,
\* the same sequence counters, and every other key as it was
SameBut(s, t, b, k) ==
    /\ DOMAIN t = DOMAIN s
    /\ \A o \in DOMAIN s :
           /\ t[o].seq = s[o].seq
           /\ \A x \in (DOMAIN s[o].kv) \cup (DOMAIN t[o].kv) :
                  (o # b \/ x # k)
                      => /\ x \in DOMAIN s[o].kv /\ x \in DOMAIN t[o].kv
                         /\ t[o].kv[x] = s[o].kv[x]

\* C29: a successful Put with an explicit key, or Delete, changes at most
\* the entry of its bucket and key: the other keys of the bucket, the
\* sequence counters, the set of buckets and the other buckets stay as they
\* were; Get, GetE, GetKeys, GetKeysE, GetBuckets, ForEach, Scan, Ping and
\* WriteTo leave the whole store as it was.
C29_Frame ==
    [][/\ (last'.op = "Put" /\ ~last'.key.isnil /\ last'.err = NoErr)
            => SameBut(store, store', last'.bucket, last'.key.b)
       /\ (last'.op = "Delete" /\ last'.err = NoErr)
            => SameBut(store, store', last'.bucket, last'.key.b)
       /\ last'.op \in {"Get", "GetE", "GetKeys", "GetKeysE", "GetBuckets",
                         "ForEach", "Scan", "Ping", "WriteTo"}
            => store' = store]_vars

C29_Witness ==
    /\ open /\ last.op = "Delete" /\ last.err = NoErr /\ last.present
    /\ last.bucket = BucketA /\ last.key = Slice(Key1)
    /\ Exists(BucketA) /\ Exists(BucketB)
    /\ DOMAIN store[BucketA].kv = {Key2, Key8}
    /\ store[BucketA].seq = 1
    /\ Key1 \in DOMAIN store[BucketB].kv

\* C27 (as claimed): the key of a successful PutV is greater than every key
\* PutV generated for the bucket name before: the keys generated since the
\* bucket was created or found in the reopened file, and, when the bucket
\* was deleted and created again just before, the keys generated for the
\* deleted bucket.
C27_SequenceNeverDecreases ==
    [][(last'.op = "PutV" /\ last'.err = NoErr)
          => /\ issued[last'.bucket].n > 0
                  => LexLess(issued[last'.bucket].key.b, last'.ret.b)
             /\ (last.op = "CreateBucket" /\ last.bucket = last'.bucket
                   /\ ~last.prior.isnil)
                  => LexLess(last.prior.b, last'.ret.b)]_vars

\* C28 (as claimed): the key a successful PutV returns was not stored in
\* the bucket when the call was made, so the call replaces no value.
C28_PutVMintsUniqueKey ==
    [][(last'.op = "PutV" /\ last'.err = NoErr)
          => ~Stored(last'.bucket, last'.ret.b)]_vars

\* C30 (as claimed): when OpenBucket opens the file and fails to create the
\* bucket, it returns no handle and leaves no database open on the file, so
\* that Open and OpenBucket of the same path succeed right after it.
C30_OpenBucketFailsCleanly ==
    (last.op = "OpenBucket" /\ last.err # NoErr
          /\ last.err.kind # "bolt.ErrTimeout")
        => /\ ~leaked
           /\ Open(open \/ leaked).err = NoErr
           /\ OpenBucket(open \/ leaked, store, BucketB).err = NoErr

C25_CodecRoundTrip ==
    [][(open /\ last'.op = "Decode")
          => /\ (last.op = "Encode" /\ last.err = NoErr
                    /\ last.bucket = last'.bucket /\ last.key = last'.key
                    /\ last.y.type = last'.y.type)
                  => /\ last'.err = NoErr
                     /\ last'.y = last.y
             /\ ~Stored(last'.bucket, last'.key.b)
                  => /\ last'.err = GetE(open, store, last'.bucket, last'.key).err
                     /\ last'.err # NoErr
                     /\ \E in \in DecodeInputs :
                            /\ in[1] = last'.bucket /\ in[2] = last'.key
                            /\ in[3] = last'.y]_vars

\* C23: every method of the Bucket handle bound to the bucket b returns
\* what the method of the Database returns when called with b and the same
\* arguments on the same store, and leaves the store that method leaves;
\* the methods that read leave the store as it is, and Close closes the
\* Database of the handle.
C23_BucketDelegates ==
    [][LET b == Handle.bucket
           op == last'.op
       IN  /\ op = "Bucket.Put"
                => /\ last'.err = Put(open, store, b, last'.key, last'.value).err
                   /\ store' = Put(open, store, b, last'.key, last'.value).store
           /\ op = "Bucket.PutV"
                => /\ last'.err = PutV(open, store, b, last'.value).err
                   /\ last'.ret = PutV(open, store, b, last'.value).key
                   /\ store' = PutV(open, store, b, last'.value).store
           /\ op = "Bucket.GetE"
                => /\ last'.err = GetE(open, store, b, last'.key).err
                   /\ last'.ret = GetE(open, store, b, last'.key).value
           /\ op = "Bucket.Get"
                => last'.ret = Get(open, store, b, last'.key)
           /\ op = "Bucket.Encode"
                => /\ last'.err = Encode(open, store, b, last'.key, last'.y).err
                   /\ store' = Encode(open, store, b, last'.key, last'.y).store
           /\ op = "Bucket.Decode"
                => \E in \in HandleDecodeInputs :
                       /\ in[1] = last'.key
                       /\ last'.err = Decode(open, store, b, in[1], in[2]).err
                       /\ last'.y = Decode(open, store, b, in[1], in[2]).y
           /\ op = "Bucket.Delete"
                => /\ last'.err = Delete(open, store, b, last'.key).err
                   /\ store' = Delete(open, store, b, last'.key).store
           /\ op = "Bucket.GetKeysE"
                => /\ last'.err = GetKeysE(open, store, b).err
                   /\ last'.keys = GetKeysE(open, store, b).keys
           /\ op = "Bucket.GetKeys"
                => last'.keys = GetKeys(open, store, b)
           /\ op = "Bucket.ForEach"
                => /\ last'.err = ForEach(open, store, b, last'.failAt).err
                   /\ last'.visits = ForEach(open, store, b, last'.failAt).visits
           /\ op = "Bucket.Scan"
                => /\ last'.err
                         = Scan(open, store, b, last'.prefix, last'.failAt).err
                   /\ last'.visits
                         = Scan(open, store, b, last'.prefix, last'.failAt).visits
           /\ op = "Bucket.Ping" => last'.err = Ping(open, store)
           /\ op = "Bucket.Close"
                => /\ last'.err = Close(open).err
                   /\ open' = Close(open).opened
           /\ op \in {"Bucket.GetE", "Bucket.Get", "Bucket.Decode", "Bucket.GetKeysE",
                      "Bucket.GetKeys", "Bucket.ForEach", "Bucket.Scan",
                      "Bucket.Ping", "Bucket.Close"}
                => store' = store
           /\ op \in {"Bucket.Put", "Bucket.PutV", "Bucket.GetE", "Bucket.Get",
                      "Bucket.Encode", "Bucket.Decode", "Bucket.Delete",
                      "Bucket.GetKeysE", "Bucket.GetKeys", "Bucket.ForEach",
                      "Bucket.Scan", "Bucket.Ping"}
                => open' = open]_vars

C23_Witness ==
    /\ open /\ last.op = "Bucket.Delete" /\ last.err = NoErr
    /\ last.key = Slice(Key1)
    /\ Exists(BucketB) /\ DOMAIN store[BucketB].kv = {Key2, itob(1)}
    /\ store[BucketB].seq = 1

\* what the sequential method gives for the call c on the store s
ReadAnswer(c, s) ==
    [value |-> IF c.op = "GetE" THEN GetE(TRUE, s, c.bucket, c.key).value
               ELSE NilSlice,
     keys |-> IF c.op = "GetKeysE" THEN GetKeysE(TRUE, s, c.bucket).keys
              ELSE IF c.op = "GetBucketsE" THEN GetBucketsE(TRUE, s).buckets
              ELSE NilList,
     visits |-> IF c.op = "ForEach" THEN ForEach(TRUE, s, c.bucket, 0).visits
                ELSE IF c.op = "Scan"
                THEN Scan(TRUE, s, c.bucket, c.prefix, 0).visits
                ELSE <<>>]

\* C21: everything a read call (GetE, GetKeysE, GetBucketsE, ForEach, Scan)
\* gave its caller is what the store held when the transaction of the call
\* began, whatever writes committed meanwhile: the value, the keys or bucket
\* names and the visits are those of the same call on that store alone
\* (looked at while the store is open).
C21_SnapshotReads ==
    (open /\ inflight.rpc = "done" /\ inflight.rerr = NoErr)
        => /\ ~inflight.rfault
           /\ inflight.rvalue = ReadAnswer(inflight.rcall, inflight.rbase).value
           /\ inflight.rkeys = ReadAnswer(inflight.rcall, inflight.rbase).keys
           /\ inflight.rvisits = ReadAnswer(inflight.rcall, inflight.rbase).visits

\* every method of the store and of a handle of the bucket b fails on the
\* closed store s and leaves the data
ClosedFails(s, b) ==
    LET k == Slice(Key1)
        v == Slice(Value1)
        h == Bucket(b)
    IN  /\ \A r \in {Put(FALSE, s, b, k, v), PutV(FALSE, s, b, v),
                     Delete(FALSE, s, b, k), DeleteBucket(FALSE, s, b),
                     CreateBucket(FALSE, s, b), Encode(FALSE, s, b, k, GoInt(1)),
                     Bucket_Put(FALSE, s, h, k, v), Bucket_PutV(FALSE, s, h, v),
                     Bucket_Delete(FALSE, s, h, k),
                     Bucket_Encode(FALSE, s, h, k, GoInt(1))} :
               r.err.kind # "nil" /\ r.store = s
        /\ \A e \in {GetE(FALSE, s, b, k).err, GetKeysE(FALSE, s, b).err,
                     GetBucketsE(FALSE, s).err, ForEach(FALSE, s, b, 0).err,
                     Scan(FALSE, s, b, Key1, 0).err, Ping(FALSE, s),
                     Decode(FALSE, s, b, k, GoInt(1)).err, WriteTo(FALSE, s, 0).err,
                     Bucket_GetE(FALSE, s, h, k).err, Bucket_GetKeysE(FALSE, s, h).err,
                     Bucket_ForEach(FALSE, s, h, 0).err,
                     Bucket_Scan(FALSE, s, h, Key1, 0).err, Bucket_Ping(FALSE, s, h),
                     Bucket_Decode(FALSE, s, h, k, GoInt(1)).err} :
               e.kind # "nil"
        /\ Get(FALSE, s, b, k) = NilSlice /\ Bucket_Get(FALSE, s, h, k) = NilSlice
        /\ GetKeys(FALSE, s, b) = NilList /\ Bucket_GetKeys(FALSE, s, h) = NilList
        /\ GetBuckets(FALSE, s) = NilList

\* C26: once Close has returned no transaction is in flight (Close waited
\* for those that were), the data never changes again, a read or a write
\* called from then on returns an error, and so does every method of the
\* store and of a bucket handle.
C26_ClosedStoreFails ==
    [][~open
         => /\ inflight.rpc # "tx" /\ inflight.wpc # "tx"
            /\ store' = store /\ ~open'
            /\ (inflight.rpc = "idle" /\ inflight'.rpc # "idle")
                 => /\ inflight'.rpc = "done"
                    /\ inflight'.rerr = BoltErr("bolt.ErrDatabaseNotOpen")
                    /\ inflight'.rkeys = NilList /\ inflight'.rvalue = NilSlice
                    /\ inflight'.rvisits = <<>>
            /\ inflight'.wn # inflight.wn
                 => inflight'.werr = BoltErr("bolt.ErrDatabaseNotOpen")
            /\ \A b \in {BucketA, BucketB} : ClosedFails(store, b)]_vars

\* Close waited for a read transaction, a write committed before it, and the
\* read and the write called after it were refused
C26_Witness ==
    /\ ~open /\ inflight.cpc = "closed" /\ inflight.cwaited
    /\ store # ReadStore
    /\ inflight.werr = BoltErr("bolt.ErrDatabaseNotOpen")

====
